---- MODULE Spec2Model ----
(***************************************************************************)
(* Model of the BatteryUtils calculator (src/batteryutils.py, class        *)
(* BatteryCalculatorGUI): the input widgets, the attributes the handlers   *)
(* keep on the object, the result labels, and the handlers wired to the    *)
(* widgets' signals and buttons.                                           *)
(*                                                                         *)
(* Numbers.  Python floats are modelled as exact rationals <<n, d>> in     *)
(* lowest terms with d > 0.  The text of a numeric label is the rational   *)
(* the format specification produces (":.2f" rounds to hundredths), so a   *)
(* value that is written to a label and read back has lost its digits.     *)
(* Exact ties of a rounding go to the even neighbour.                      *)
(*                                                                         *)
(* Widgets.  The text of a line edit is a record [k, v]: k = "empty" for   *)
(* the empty string, k = "bad" for a text float() rejects, k = "num" for   *)
(* a numeral whose value is v.  The text of a label is a record of the     *)
(* same shape; k = "num" is a formatted number, k = "time" is a duration   *)
(* shown as hours and minutes (v = total minutes), every other k is the    *)
(* literal text.                                                           *)
(***************************************************************************)
EXTENDS Integers, Sequences, FiniteSets, TLC

-----------------------------------------------------------------------------
(* Rational arithmetic *)

Abs(x) == IF x < 0 THEN -x ELSE x

RECURSIVE GCD(_, _)
GCD(a, b) == IF b = 0 THEN a ELSE GCD(b, a % b)

Norm(n, d) ==
    LET g == GCD(Abs(n), Abs(d))
        s == IF d < 0 THEN -1 ELSE 1
    IN  <<(s * n) \div g, (s * d) \div g>>

R(n) == <<n, 1>>
Zero == <<0, 1>>
RAdd(a, b) == Norm(a[1] * b[2] + b[1] * a[2], a[2] * b[2])
RSub(a, b) == Norm(a[1] * b[2] - b[1] * a[2], a[2] * b[2])
RMul(a, b) == Norm(a[1] * b[1], a[2] * b[2])
RDiv(a, b) == Norm(a[1] * b[2], a[2] * b[1])
RLt(a, b) == a[1] * b[2] < b[1] * a[2]
RLe(a, b) == a[1] * b[2] <= b[1] * a[2]
RMax(a, b) == IF RLt(a, b) THEN b ELSE a
RMin(a, b) == IF RLt(b, a) THEN b ELSE a

(* Python round(x) and the rounding of a format specification: the nearest *)
(* integer, an exact tie to the even one.                                  *)
RoundHalfEven(a) ==
    LET f == a[1] \div a[2]
        r2 == 2 * (a[1] - f * a[2])
    IN  IF r2 < a[2] THEN f
        ELSE IF r2 > a[2] THEN f + 1
        ELSE IF f % 2 = 0 THEN f ELSE f + 1

(* f"{x:.2f}" and f"{x:.1f}" as the number the text denotes *)
Fmt2(a) == Norm(RoundHalfEven(RMul(a, R(100))), 100)
Fmt1(a) == Norm(RoundHalfEven(RMul(a, R(10))), 10)

(* F applied to the value of x.  The handlers below are compositions of    *)
(* calls; Then evaluates the object a call returns once, before the next   *)
(* call reads it.                                                          *)
Then(x, F(_)) == CHOOSE y \in {F(v) : v \in {x}} : TRUE

-----------------------------------------------------------------------------
(* Widget texts *)

EmptyText == [k |-> "empty", v |-> Zero]
BadText == [k |-> "bad", v |-> Zero]
Num(r) == [k |-> "num", v |-> r]
Text(t) == [k |-> t, v |-> Zero]
TimeText(m) == [k |-> "time", v |-> R(m)]

(* float(text): a ValueError unless the text is a numeral *)
FloatOk(t) == t.k = "num"
(* float(text) if text else 0.0 *)
FloatOrZeroOk(t) == t.k \in {"num", "empty"}
FloatOrZero(t) == IF t.k = "num" THEN t.v ELSE Zero
(* int(text): a ValueError unless the text is an integer numeral *)
IntOk(t) == t.k = "num" /\ t.v[2] = 1

-----------------------------------------------------------------------------
(* Class constants *)

CELL_VOLTAGE_FULL == <<21, 5>>
CELL_VOLTAGE_EMPTY == <<3, 1>>

NOMINAL_VOLTAGE_TO_SERIES_CELLS == [x \in {36, 48, 52, 60, 72} |->
    CASE x = 36 -> 10 [] x = 48 -> 13 [] x = 52 -> 14 [] x = 60 -> 16 [] x = 72 -> 20]

SMALL_WHEEL_REF == <<10, 1>>
LARGE_WHEEL_REF == <<55, 2>>

Styles == {"Agressive", "Casual", "Eco"}

(* a variant of the small-wheel table with Eco as its lowest value *)
SMALL_WHEEL_EFFICIENCY_EcoLowest == [x \in Styles |->
    CASE x = "Eco" -> <<28, 1>> [] x = "Casual" -> <<30, 1>> [] x = "Agressive" -> <<45, 1>>]
SMALL_WHEEL_EFFICIENCY == [x \in Styles |->
    CASE x = "Eco" -> <<832, 25>> [] x = "Casual" -> <<30, 1>> [] x = "Agressive" -> <<45, 1>>]
LARGE_WHEEL_EFFICIENCY == [x \in Styles |->
    CASE x = "Eco" -> <<208, 5>> [] x = "Casual" -> <<65, 1>> [] x = "Agressive" -> <<80, 1>>]

-----------------------------------------------------------------------------
(* State: the object's widgets and attributes *)

VARIABLES
    voltage_entry, series_cells_entry, series_cells_visible,
    capacity_type_combo, capacity_entry, charge_rate_entry,
    charging_duration_combo, current_percentage_entry, current_voltage_entry,
    percent_radio, wheel_diameter_entry, driving_style_combo,
    preferred_cutoff_entry,
    use_logged_efficiency, logged_wh_per_mile_average, full_charge_range,
    all_profiles, profile_keys, profile_combo, current_profile_name,
    min_voltage_info_label, max_voltage_info_label,
    breakdown_series_cells_label,
    current_state_percent_result_label, current_state_voltage_result_label,
    calculated_range_label, miles_per_wh_label, miles_per_ah_label,
    efficiency_source_label,
    charge_time_label, remaining_charge_percentage_label, remaining_range_label,
    range_to_cutoff_label, charge_time_from_cutoff_label,
    percentage_after_charge_label, results_charge_duration_label,
    average_wh_per_mile_label, average_miles_per_wh_label,
    last_ride_data, settings_file, raised, escaped,
    last_op

vars == <<voltage_entry, series_cells_entry, series_cells_visible,
    capacity_type_combo, capacity_entry, charge_rate_entry,
    charging_duration_combo, current_percentage_entry, current_voltage_entry,
    percent_radio, wheel_diameter_entry, driving_style_combo,
    preferred_cutoff_entry,
    use_logged_efficiency, logged_wh_per_mile_average, full_charge_range,
    all_profiles, profile_keys, profile_combo, current_profile_name,
    min_voltage_info_label, max_voltage_info_label,
    breakdown_series_cells_label,
    current_state_percent_result_label, current_state_voltage_result_label,
    calculated_range_label, miles_per_wh_label, miles_per_ah_label,
    efficiency_source_label,
    charge_time_label, remaining_charge_percentage_label, remaining_range_label,
    range_to_cutoff_label, charge_time_from_cutoff_label,
    percentage_after_charge_label, results_charge_duration_label,
    average_wh_per_mile_label, average_miles_per_wh_label,
    last_ride_data, settings_file, raised, escaped,
    last_op>>

(* The object as one record: the handlers below are written as operators   *)
(* from the object before the call to the object after it.  raised names   *)
(* the exception that ended the handler early ("none" at its start),        *)
(* escaped tells that no except clause of the handler caught it.           *)
Self == [
    voltage_entry |-> voltage_entry,
    series_cells_entry |-> series_cells_entry,
    series_cells_visible |-> series_cells_visible,
    capacity_type_combo |-> capacity_type_combo,
    capacity_entry |-> capacity_entry,
    charge_rate_entry |-> charge_rate_entry,
    charging_duration_combo |-> charging_duration_combo,
    current_percentage_entry |-> current_percentage_entry,
    current_voltage_entry |-> current_voltage_entry,
    percent_radio |-> percent_radio,
    wheel_diameter_entry |-> wheel_diameter_entry,
    driving_style_combo |-> driving_style_combo,
    preferred_cutoff_entry |-> preferred_cutoff_entry,
    use_logged_efficiency |-> use_logged_efficiency,
    logged_wh_per_mile_average |-> logged_wh_per_mile_average,
    full_charge_range |-> full_charge_range,
    all_profiles |-> all_profiles,
    profile_keys |-> profile_keys,
    profile_combo |-> profile_combo,
    current_profile_name |-> current_profile_name,
    min_voltage_info_label |-> min_voltage_info_label,
    max_voltage_info_label |-> max_voltage_info_label,
    breakdown_series_cells_label |-> breakdown_series_cells_label,
    current_state_percent_result_label |-> current_state_percent_result_label,
    current_state_voltage_result_label |-> current_state_voltage_result_label,
    calculated_range_label |-> calculated_range_label,
    miles_per_wh_label |-> miles_per_wh_label,
    miles_per_ah_label |-> miles_per_ah_label,
    efficiency_source_label |-> efficiency_source_label,
    charge_time_label |-> charge_time_label,
    remaining_charge_percentage_label |-> remaining_charge_percentage_label,
    remaining_range_label |-> remaining_range_label,
    range_to_cutoff_label |-> range_to_cutoff_label,
    charge_time_from_cutoff_label |-> charge_time_from_cutoff_label,
    percentage_after_charge_label |-> percentage_after_charge_label,
    results_charge_duration_label |-> results_charge_duration_label,
    average_wh_per_mile_label |-> average_wh_per_mile_label,
    average_miles_per_wh_label |-> average_miles_per_wh_label,
    last_ride_data |-> last_ride_data,
    settings_file |-> settings_file,
    raised |-> "none",
    escaped |-> FALSE]

(* The object after a handler has run; op names the handler that ran last. *)
(* An exception that escapes a slot or __init__ ends the process: PyQt6     *)
(* aborts on an unhandled exception, and no handler runs after it.          *)
Becomes(s, op) ==
    \E r \in {s} :
       /\ ~escaped
       /\ voltage_entry' = r.voltage_entry
       /\ series_cells_entry' = r.series_cells_entry
       /\ series_cells_visible' = r.series_cells_visible
       /\ capacity_type_combo' = r.capacity_type_combo
       /\ capacity_entry' = r.capacity_entry
       /\ charge_rate_entry' = r.charge_rate_entry
       /\ charging_duration_combo' = r.charging_duration_combo
       /\ current_percentage_entry' = r.current_percentage_entry
       /\ current_voltage_entry' = r.current_voltage_entry
       /\ percent_radio' = r.percent_radio
       /\ wheel_diameter_entry' = r.wheel_diameter_entry
       /\ driving_style_combo' = r.driving_style_combo
       /\ preferred_cutoff_entry' = r.preferred_cutoff_entry
       /\ use_logged_efficiency' = r.use_logged_efficiency
       /\ logged_wh_per_mile_average' = r.logged_wh_per_mile_average
       /\ full_charge_range' = r.full_charge_range
       /\ all_profiles' = r.all_profiles
       /\ profile_keys' = r.profile_keys
       /\ profile_combo' = r.profile_combo
       /\ current_profile_name' = r.current_profile_name
       /\ min_voltage_info_label' = r.min_voltage_info_label
       /\ max_voltage_info_label' = r.max_voltage_info_label
       /\ breakdown_series_cells_label' = r.breakdown_series_cells_label
       /\ current_state_percent_result_label' = r.current_state_percent_result_label
       /\ current_state_voltage_result_label' = r.current_state_voltage_result_label
       /\ calculated_range_label' = r.calculated_range_label
       /\ miles_per_wh_label' = r.miles_per_wh_label
       /\ miles_per_ah_label' = r.miles_per_ah_label
       /\ efficiency_source_label' = r.efficiency_source_label
       /\ charge_time_label' = r.charge_time_label
       /\ remaining_charge_percentage_label' = r.remaining_charge_percentage_label
       /\ remaining_range_label' = r.remaining_range_label
       /\ range_to_cutoff_label' = r.range_to_cutoff_label
       /\ charge_time_from_cutoff_label' = r.charge_time_from_cutoff_label
       /\ percentage_after_charge_label' = r.percentage_after_charge_label
       /\ results_charge_duration_label' = r.results_charge_duration_label
       /\ average_wh_per_mile_label' = r.average_wh_per_mile_label
       /\ average_miles_per_wh_label' = r.average_miles_per_wh_label
       /\ last_ride_data' = r.last_ride_data
       /\ settings_file' = r.settings_file
       /\ raised' = r.raised
       /\ escaped' = r.escaped
       /\ last_op' = op

-----------------------------------------------------------------------------
(* Battery geometry *)

(* The three values get_derived_voltage_range_and_s returns; ok = FALSE is *)
(* the tuple (None, None, None).                                           *)
(* NoGeometry_OneCell is a variant that stands a one-cell pack in for it.  *)
NoGeometry_OneCell == [ok |-> TRUE, min_v |-> R(3), max_v |-> <<21, 5>>, series_cells |-> 1]
NoGeometry == [ok |-> FALSE, min_v |-> Zero, max_v |-> Zero, series_cells |-> 0]
Geometry(n) == [ok |-> TRUE,
                min_v |-> RMul(R(n), CELL_VOLTAGE_EMPTY),
                max_v |-> RMul(R(n), CELL_VOLTAGE_FULL),
                series_cells |-> n]

(* a variant that truncates the voltage instead of rounding it *)
InferredS_Truncating(v) ==
    LET key == v[1] \div v[2]
    IN  IF key \in DOMAIN NOMINAL_VOLTAGE_TO_SERIES_CELLS
        THEN NOMINAL_VOLTAGE_TO_SERIES_CELLS[key] ELSE 0
(* NOMINAL_VOLTAGE_TO_SERIES_CELLS.get(int(round(v))): 0 stands for None *)
InferredS(v) ==
    LET key == RoundHalfEven(v)
    IN  IF key \in DOMAIN NOMINAL_VOLTAGE_TO_SERIES_CELLS
        THEN NOMINAL_VOLTAGE_TO_SERIES_CELLS[key] ELSE 0

VoltageInTable(t) == FloatOk(t) /\ InferredS(t.v) # 0

(* update_voltage_info_labels: the slot of voltage_entry.textChanged and   *)
(* series_cells_entry.textChanged.  Writing the inferred count into the    *)
(* series-cells field emits textChanged again, which re-enters this slot   *)
(* with the text already in place and changes nothing more.                *)
update_voltage_info_labels(s) ==
    LET hidden == [s EXCEPT !.series_cells_visible = FALSE]
        shown == [hidden EXCEPT !.series_cells_visible = TRUE,
                                !.min_voltage_info_label = Text("Empty V: N/A"),
                                !.max_voltage_info_label = Text("Full Charge V: N/A")]
    IN  IF ~FloatOk(s.voltage_entry) THEN shown
        ELSE LET inferred_s == InferredS(s.voltage_entry.v)
             IN  IF inferred_s = 0 THEN shown
                 ELSE LET s1 == [hidden EXCEPT !.series_cells_entry = Num(R(inferred_s))]
                          series_cells == inferred_s
                      IN  IF series_cells > 0
                          THEN [s1 EXCEPT
                                 !.min_voltage_info_label = Num(Fmt1(Geometry(series_cells).min_v)),
                                 !.max_voltage_info_label = Num(Fmt1(Geometry(series_cells).max_v))]
                          ELSE [s1 EXCEPT
                                 !.min_voltage_info_label = Text("Empty V: N/A"),
                                 !.max_voltage_info_label = Text("N/A")]

(* get_derived_voltage_range_and_s: ret is the returned tuple, self the    *)
(* object after the call.  A nominal voltage outside the table returns     *)
(* (None, None, None) before the manual series-cell field is read.         *)
get_derived_voltage_range_and_s(s) ==
    LET shown == [s EXCEPT !.series_cells_visible = TRUE,
                           !.min_voltage_info_label = Text("Empty V: N/A"),
                           !.max_voltage_info_label = Text("Full Charge V: N/A")]
    IN  IF ~FloatOk(s.voltage_entry) THEN [ret |-> NoGeometry, self |-> shown]
        ELSE LET inferred_s == InferredS(s.voltage_entry.v)
             IN  IF inferred_s = 0 THEN [ret |-> NoGeometry, self |-> shown]
                 ELSE LET s0 == [s EXCEPT !.series_cells_entry = Num(R(inferred_s))]
                          s1 == IF s0.series_cells_entry = s.series_cells_entry
                                THEN s0 ELSE update_voltage_info_labels(s0)
                          series_cells == inferred_s
                      IN  IF series_cells > 0
                          THEN [ret |-> Geometry(series_cells),
                                self |-> [s1 EXCEPT
                                  !.min_voltage_info_label = Num(Fmt1(Geometry(series_cells).min_v)),
                                  !.max_voltage_info_label = Num(Fmt1(Geometry(series_cells).max_v))]]
                          ELSE [ret |-> NoGeometry,
                                self |-> [s1 EXCEPT
                                  !.min_voltage_info_label = Text("Empty V: N/A"),
                                  !.max_voltage_info_label = Text("N/A")]]

(* get_derived_voltage_range_and_s of batteryutils_EXPERIMENTAL.py: it     *)
(* reads and writes no widget but the two fields, and takes the manual     *)
(* count whenever the table has no key for the rounded voltage             *)
EXPERIMENTAL_get_derived_voltage_range_and_s(s) ==
    IF ~FloatOk(s.voltage_entry) THEN NoGeometry
    ELSE LET inferred_s == InferredS(s.voltage_entry.v)
         IN  IF inferred_s # 0 THEN Geometry(inferred_s)
             ELSE IF ~IntOk(s.series_cells_entry) THEN NoGeometry
             ELSE LET series_cells == s.series_cells_entry.v[1]
                  IN  IF series_cells <= 0 THEN NoGeometry ELSE Geometry(series_cells)

-----------------------------------------------------------------------------
(* Current battery state *)

NoState == [ok |-> FALSE, percent |-> Zero, voltage |-> Zero]

(* a variant that measures the voltage above empty against the full voltage *)
PercentFromVoltage_OfFullVoltage(current_voltage, min_voltage, max_voltage) ==
    RMax(Zero, RMin(R(100),
        RMul(RDiv(RSub(current_voltage, min_voltage), max_voltage), R(100))))
(* a variant that leaves the percentage of a voltage as computed *)
PercentFromVoltage_Unclamped(current_voltage, min_voltage, max_voltage) ==
    RMul(RDiv(RSub(current_voltage, min_voltage), RSub(max_voltage, min_voltage)), R(100))
(* percentage = ((v - min) / (max - min)) * 100, clamped to [0, 100] *)
PercentFromVoltage(current_voltage, min_voltage, max_voltage) ==
    LET voltage_range_diff == RSub(max_voltage, min_voltage)
    IN  IF RLt(Zero, voltage_range_diff)
        THEN RMax(Zero, RMin(R(100),
                 RMul(RDiv(RSub(current_voltage, min_voltage), voltage_range_diff), R(100))))
        ELSE IF RLe(current_voltage, min_voltage) THEN Zero ELSE R(100)

(* a variant that takes the share of the full voltage *)
VoltageFromPercent_OfFullVoltage(percent, min_voltage, max_voltage) ==
    RMul(RDiv(percent, R(100)), max_voltage)
(* min + (percent / 100) * (max - min) *)
VoltageFromPercent(percent, min_voltage, max_voltage) ==
    RAdd(min_voltage, RMul(RDiv(percent, R(100)), RSub(max_voltage, min_voltage)))

(* a variant that accepts percentages above 100 *)
PercentAccepted_NoUpperLimit(percent) == RLe(Zero, percent)
(* 0 <= percent <= 100 *)
PercentAccepted(percent) == RLe(Zero, percent) /\ RLe(percent, R(100))

(* get_current_battery_percentage, as the calculator tab calls it (no      *)
(* overrides): ret is the returned pair, ok = FALSE being (None, None).    *)
get_current_battery_percentage(s) ==
    LET AfterGeometry(g) ==
        LET s1 == g.self
        IN  IF ~g.ret.ok THEN [ret |-> NoState, self |-> s1]
        ELSE IF s1.percent_radio
        THEN IF ~FloatOk(s1.current_percentage_entry) THEN [ret |-> NoState, self |-> s1]
             ELSE LET percent == s1.current_percentage_entry.v
                  IN  IF ~PercentAccepted(percent)
                      THEN [ret |-> NoState, self |-> s1]
                      ELSE [ret |-> [ok |-> TRUE, percent |-> percent,
                                     voltage |-> VoltageFromPercent(percent, g.ret.min_v, g.ret.max_v)],
                            self |-> s1]
        ELSE IF ~FloatOk(s1.current_voltage_entry) THEN [ret |-> NoState, self |-> s1]
             ELSE LET current_voltage == s1.current_voltage_entry.v
                  IN  [ret |-> [ok |-> TRUE,
                                percent |-> PercentFromVoltage(current_voltage, g.ret.min_v, g.ret.max_v),
                                voltage |-> current_voltage],
                       self |-> s1]
    IN  Then(get_derived_voltage_range_and_s(s), AfterGeometry)

-----------------------------------------------------------------------------
(* Range *)

(* a variant that takes the capacity types the other way round *)
TotalEnergyWh_TypesSwapped(capacity, capacity_type, nominal_voltage) ==
    IF capacity_type = "Ah" THEN capacity ELSE RMul(capacity, nominal_voltage)
(* capacity if capacity_type == "Wh" else capacity * nominal_voltage *)
TotalEnergyWh(capacity, capacity_type, nominal_voltage) ==
    IF capacity_type = "Wh" THEN capacity ELSE RMul(capacity, nominal_voltage)

(* a variant that extrapolates outside the reference diameters *)
InterpolationFactor_Unclamped(wheel_diameter) ==
    RDiv(RSub(wheel_diameter, SMALL_WHEEL_REF), RSub(LARGE_WHEEL_REF, SMALL_WHEEL_REF))
(* the clamped interpolation factor of the predicted efficiency *)
InterpolationFactor(wheel_diameter) ==
    RMax(Zero, RMin(R(1),
        RDiv(RSub(wheel_diameter, SMALL_WHEEL_REF), RSub(LARGE_WHEEL_REF, SMALL_WHEEL_REF))))

(* the predicted Wh/mile of a driving style of the tables *)
PredictedWhPerMile(driving_style, wheel_diameter) ==
    LET interpolation_factor == InterpolationFactor(wheel_diameter)
        base_wh_per_mile_small == SMALL_WHEEL_EFFICIENCY[driving_style]
        base_wh_per_mile_large == LARGE_WHEEL_EFFICIENCY[driving_style]
    IN  RAdd(RMul(base_wh_per_mile_small, RSub(R(1), interpolation_factor)),
             RMul(base_wh_per_mile_large, interpolation_factor))

(* a variant that uses the logged average whenever there is one *)
UsesLogged_WithoutToggle(s) == RLt(Zero, s.logged_wh_per_mile_average)
(* the branch of calculate_range that picks the efficiency source *)
UsesLogged(s) == s.use_logged_efficiency /\ RLt(Zero, s.logged_wh_per_mile_average)

(* a variant that multiplies the energy by the Wh/mile *)
EstimatedRange_Product(total_energy_wh, adjusted_wh_per_mile) ==
    RMul(total_energy_wh, adjusted_wh_per_mile)
(* estimated_range = total_energy_wh / adjusted_wh_per_mile *)
EstimatedRange(total_energy_wh, adjusted_wh_per_mile) ==
    RDiv(total_energy_wh, adjusted_wh_per_mile)

calculate_range(s) ==
    LET cleared == [s EXCEPT !.calculated_range_label = EmptyText,
                             !.miles_per_wh_label = EmptyText,
                             !.miles_per_ah_label = EmptyText,
                             !.full_charge_range = Zero]
        error == [cleared EXCEPT !.efficiency_source_label = Text("Error")]
        nominal_voltage == FloatOrZero(s.voltage_entry)
        capacity == FloatOrZero(s.capacity_entry)
        wheel_diameter == FloatOrZero(s.wheel_diameter_entry)
        total_energy_wh == TotalEnergyWh(capacity, s.capacity_type_combo, nominal_voltage)
    IN  IF ~(FloatOrZeroOk(s.voltage_entry) /\ FloatOrZeroOk(s.capacity_entry)
             /\ FloatOrZeroOk(s.wheel_diameter_entry)) THEN error
        ELSE IF RLe(nominal_voltage, Zero) \/ RLe(capacity, Zero) \/ RLe(wheel_diameter, Zero)
        THEN error
        ELSE IF ~UsesLogged(s) /\ s.driving_style_combo \notin Styles THEN error
        ELSE LET adjusted_wh_per_mile ==
                     IF UsesLogged(s) THEN s.logged_wh_per_mile_average
                     ELSE PredictedWhPerMile(s.driving_style_combo, wheel_diameter)
                 source == IF UsesLogged(s) THEN "Logged" ELSE "Predicted"
             IN  IF RLe(adjusted_wh_per_mile, Zero) THEN error
                 ELSE LET estimated_range == EstimatedRange(total_energy_wh, adjusted_wh_per_mile)
                      IN  [cleared EXCEPT
                            !.efficiency_source_label = Text(source),
                            !.calculated_range_label = Num(Fmt2(estimated_range)),
                            !.miles_per_wh_label = Num(Fmt2(RDiv(R(1), adjusted_wh_per_mile))),
                            !.miles_per_ah_label = Num(Fmt2(RDiv(nominal_voltage, adjusted_wh_per_mile))),
                            !.full_charge_range = estimated_range]

-----------------------------------------------------------------------------
(* Charge time, remaining range, cutoff metrics, percentage after a charge *)

(* format_time_to_hours_minutes: the text "X hours Y min" of a duration is *)
(* determined by its total minutes, round(decimal_hours * 60)              *)
format_time_to_hours_minutes(decimal_hours) ==
    IF RLt(decimal_hours, Zero) THEN Text("N/A")
    ELSE TimeText(RoundHalfEven(RMul(decimal_hours, R(60))))

(* capacity / nominal_voltage for a capacity in Wh, capacity itself in Ah *)
CapacityAh(capacity, capacity_type, nominal_voltage) ==
    IF capacity_type = "Wh"
    THEN (IF RLt(Zero, nominal_voltage) THEN RDiv(capacity, nominal_voltage) ELSE Zero)
    ELSE capacity

(* a variant that charges the share already held *)
EstimatedChargeTime_OfHeldShare(capacity_ah, current_percentage, charge_rate) ==
    RDiv(RMul(capacity_ah, RDiv(current_percentage, R(100))), charge_rate)
(* capacity_ah * (1 - current_percentage / 100) / charge_rate *)
EstimatedChargeTime(capacity_ah, current_percentage, charge_rate) ==
    RDiv(RMul(capacity_ah, RSub(R(1), RDiv(current_percentage, R(100)))), charge_rate)

(* a variant that takes the share already used *)
RemainingRange_OfUsedShare(range, current_percentage) ==
    RMul(range, RSub(R(1), RDiv(current_percentage, R(100))))
(* full_charge_range * (current_percentage / 100) *)
RemainingRange(range, current_percentage) ==
    RMul(range, RDiv(current_percentage, R(100)))

calculate_charge_time_and_remaining_range(s) ==
    LET cleared == [s EXCEPT !.charge_time_label = EmptyText,
                             !.remaining_charge_percentage_label = EmptyText,
                             !.remaining_range_label = EmptyText]
        AfterState(st) ==
        LET s1 == st.self
            current_percentage == st.ret.percent
            nominal_voltage == FloatOrZero(s1.voltage_entry)
            charge_rate == FloatOrZero(s1.charge_rate_entry)
            capacity == FloatOrZero(s1.capacity_entry)
            capacity_ah == CapacityAh(capacity, s1.capacity_type_combo, nominal_voltage)
        IN  IF ~st.ret.ok THEN s1
        ELSE IF ~(FloatOrZeroOk(s1.voltage_entry) /\ FloatOrZeroOk(s1.charge_rate_entry)
                  /\ FloatOrZeroOk(s1.capacity_entry)) THEN s1
        ELSE IF RLe(nominal_voltage, Zero) \/ RLe(capacity, Zero) \/ RLe(charge_rate, Zero)
        THEN s1
        ELSE IF RLe(capacity_ah, Zero) THEN s1
        ELSE [s1 EXCEPT
               !.charge_time_label = format_time_to_hours_minutes(
                    EstimatedChargeTime(capacity_ah, current_percentage, charge_rate)),
               !.remaining_charge_percentage_label =
                    Num(Fmt2(RSub(R(100), current_percentage))),
               !.remaining_range_label =
                    IF RLt(Zero, s1.full_charge_range)
                    THEN Num(Fmt2(RemainingRange(s1.full_charge_range, current_percentage)))
                    ELSE Text("N/A (Full charge range not available or zero)")]
    IN  Then(get_current_battery_percentage(cleared), AfterState)

(* The efficiency calculate_cutoff_metrics uses: it reads the Miles/Wh     *)
(* label back (float(self.miles_per_wh_label.text())) and inverts it; 0    *)
(* when the label is empty or shows 0.00                                   *)
CutoffWhPerMile(s) ==
    IF FloatOk(s.miles_per_wh_label) /\ RLt(Zero, s.miles_per_wh_label.v)
    THEN RDiv(R(1), s.miles_per_wh_label.v) ELSE Zero

(* wh_available_to_cutoff / adjusted_wh_per_mile *)
RangeToCutoff(total_energy_wh, current_percentage, preferred_cutoff_percentage, adjusted_wh_per_mile) ==
    RDiv(RMul(total_energy_wh,
              RDiv(RSub(current_percentage, preferred_cutoff_percentage), R(100))),
         adjusted_wh_per_mile)

(* The second half of calculate_cutoff_metrics, the charge time from the   *)
(* cutoff.  bound tells whether nominal_voltage, capacity and              *)
(* capacity_type were assigned on the way: they are assigned only in the   *)
(* branch that computes a range, and reading them unassigned raises        *)
(* UnboundLocalError, which the handler's last except clause turns into    *)
(* "Error" on both labels.                                                 *)
ChargeTimeFromCutoff(s0, bound, preferred_cutoff_percentage) ==
    LET Rest(s) ==
    LET charge_rate == FloatOrZero(s.charge_rate_entry)
        nominal_voltage == FloatOrZero(s.voltage_entry)
        capacity == FloatOrZero(s.capacity_entry)
        total_capacity_wh == TotalEnergyWh(capacity, s.capacity_type_combo, nominal_voltage)
        total_capacity_ah == IF RLt(Zero, nominal_voltage)
                             THEN RDiv(total_capacity_wh, nominal_voltage) ELSE Zero
        ah_to_charge_from_cutoff ==
            RMul(total_capacity_ah, RDiv(RSub(R(100), preferred_cutoff_percentage), R(100)))
    IN  IF ~FloatOrZeroOk(s.charge_rate_entry)
        THEN [s EXCEPT !.range_to_cutoff_label = Text("N/A"),
                       !.charge_time_from_cutoff_label = Text("N/A")]
        ELSE IF ~bound
        THEN [s EXCEPT !.range_to_cutoff_label = Text("Error"),
                       !.charge_time_from_cutoff_label = Text("Error")]
        ELSE IF RLe(nominal_voltage, Zero) \/ RLe(capacity, Zero) \/ RLe(charge_rate, Zero)
        THEN [s EXCEPT !.charge_time_from_cutoff_label = Text("N/A")]
        ELSE IF RLe(total_capacity_ah, Zero)
        THEN [s EXCEPT !.charge_time_from_cutoff_label = Text("N/A")]
        ELSE [s EXCEPT !.charge_time_from_cutoff_label =
                 format_time_to_hours_minutes(RDiv(ah_to_charge_from_cutoff, charge_rate))]
    IN  Then(s0, Rest)

calculate_cutoff_metrics(s) ==
    LET cleared == [s EXCEPT !.range_to_cutoff_label = EmptyText,
                             !.charge_time_from_cutoff_label = EmptyText]
        preferred_cutoff_percentage == FloatOrZero(s.preferred_cutoff_entry)
        AfterState(st) ==
        LET s1 == st.self
            both_na == [s1 EXCEPT !.range_to_cutoff_label = Text("N/A"),
                              !.charge_time_from_cutoff_label = Text("N/A")]
            range_na == [s1 EXCEPT !.range_to_cutoff_label = Text("N/A")]
            current_percentage == st.ret.percent
            nominal_voltage == FloatOrZero(s1.voltage_entry)
            capacity == FloatOrZero(s1.capacity_entry)
            total_energy_wh == TotalEnergyWh(capacity, s1.capacity_type_combo, nominal_voltage)
            adjusted_wh_per_mile == CutoffWhPerMile(s1)
        IN  IF ~st.ret.ok THEN both_na
            ELSE IF RLe(current_percentage, preferred_cutoff_percentage)
            THEN ChargeTimeFromCutoff(
                     [s1 EXCEPT !.range_to_cutoff_label = Text("N/A (At/Below Cutoff)")],
                     FALSE, preferred_cutoff_percentage)
            ELSE IF ~(FloatOrZeroOk(s1.voltage_entry) /\ FloatOrZeroOk(s1.capacity_entry))
            THEN both_na
            ELSE IF RLe(nominal_voltage, Zero) \/ RLe(capacity, Zero) THEN range_na
            ELSE IF RLe(s1.full_charge_range, Zero) THEN range_na
            ELSE ChargeTimeFromCutoff(
                     [s1 EXCEPT !.range_to_cutoff_label =
                         IF RLt(Zero, adjusted_wh_per_mile)
                         THEN Num(Fmt2(RangeToCutoff(total_energy_wh, current_percentage,
                                           preferred_cutoff_percentage, adjusted_wh_per_mile)))
                         ELSE Text("N/A (Efficiency Error)")],
                     TRUE, preferred_cutoff_percentage)
    IN  IF ~FloatOrZeroOk(s.preferred_cutoff_entry)
        THEN [cleared EXCEPT !.range_to_cutoff_label = Text("N/A"),
                             !.charge_time_from_cutoff_label = Text("N/A")]
        ELSE IF ~(RLe(Zero, preferred_cutoff_percentage)
                  /\ RLe(preferred_cutoff_percentage, R(100)))
        THEN [cleared EXCEPT !.range_to_cutoff_label = Text("N/A"),
                             !.charge_time_from_cutoff_label = Text("N/A")]
        ELSE Then(get_current_battery_percentage(cleared), AfterState)

(* a variant without the cap at 100 *)
PercentageAfterCharge_Uncapped(total_capacity_ah, current_percentage, charge_rate, duration_hours) ==
    LET current_ah == RMul(total_capacity_ah, RDiv(current_percentage, R(100)))
        new_ah == RAdd(current_ah, RMul(charge_rate, duration_hours))
    IN  RMul(RDiv(new_ah, total_capacity_ah), R(100))
(* current percent to Ah, plus the charge of the duration, back to percent, *)
(* capped at 100                                                            *)
PercentageAfterCharge(total_capacity_ah, current_percentage, charge_rate, duration_hours) ==
    LET current_ah == RMul(total_capacity_ah, RDiv(current_percentage, R(100)))
        ah_charged_in_duration == RMul(charge_rate, duration_hours)
        new_ah == RAdd(current_ah, ah_charged_in_duration)
        new_percentage == RMul(RDiv(new_ah, total_capacity_ah), R(100))
    IN  RMin(R(100), new_percentage)

calculate_percentage_after_charge(s, duration_hours) ==
    LET cleared == [s EXCEPT !.percentage_after_charge_label = EmptyText]
        nominal_voltage == FloatOrZero(s.voltage_entry)
        capacity == FloatOrZero(s.capacity_entry)
        charge_rate == FloatOrZero(s.charge_rate_entry)
        total_capacity_wh == TotalEnergyWh(capacity, s.capacity_type_combo, nominal_voltage)
        total_capacity_ah == IF RLt(Zero, nominal_voltage)
                             THEN RDiv(total_capacity_wh, nominal_voltage) ELSE Zero
        AfterState(st) ==
            IF ~st.ret.ok THEN st.self
            ELSE [st.self EXCEPT !.percentage_after_charge_label =
                     Num(Fmt2(PercentageAfterCharge(total_capacity_ah, st.ret.percent,
                                                    charge_rate, duration_hours)))]
    IN  IF ~(FloatOrZeroOk(s.voltage_entry) /\ FloatOrZeroOk(s.capacity_entry)
             /\ FloatOrZeroOk(s.charge_rate_entry)) THEN cleared
        ELSE IF RLe(nominal_voltage, Zero) \/ RLe(capacity, Zero) \/ RLe(charge_rate, Zero)
        THEN cleared
        ELSE IF RLe(total_capacity_ah, Zero) THEN cleared
        ELSE Then(get_current_battery_percentage(cleared), AfterState)

(* update_breakdown, for the labels that show derived values: the series   *)
(* cell count and the current state                                        *)
update_breakdown(s) ==
    LET AfterGeometry(g) ==
            [g.self EXCEPT !.breakdown_series_cells_label =
                IF g.ret.ok THEN Num(R(g.ret.series_cells)) ELSE Text("N/A")]
        AfterState(st) ==
            IF st.ret.ok
            THEN [st.self EXCEPT
                   !.current_state_percent_result_label = Num(Fmt2(st.ret.percent)),
                   !.current_state_voltage_result_label = Num(Fmt2(st.ret.voltage))]
            ELSE [st.self EXCEPT
                   !.current_state_percent_result_label = Text("N/A"),
                   !.current_state_voltage_result_label = Text("N/A")]
        CurrentState(s1) == Then(get_current_battery_percentage(s1), AfterState)
    IN  Then(Then(get_derived_voltage_range_and_s(s), AfterGeometry), CurrentState)

calculate_all(s) ==
    LET AfterCharge(s5) ==
            [s5 EXCEPT !.results_charge_duration_label =
                format_time_to_hours_minutes(s5.charging_duration_combo.v)]
        PercentageAfter(s4) ==
            IF s4.charging_duration_combo.k # "empty" /\ s4.charge_rate_entry.k # "empty"
            THEN IF FloatOk(s4.charging_duration_combo)
                 THEN Then(calculate_percentage_after_charge(s4, s4.charging_duration_combo.v),
                           AfterCharge)
                 ELSE [s4 EXCEPT !.percentage_after_charge_label = Text("N/A"),
                                 !.results_charge_duration_label = Text("N/A")]
            ELSE [s4 EXCEPT !.percentage_after_charge_label = EmptyText,
                            !.results_charge_duration_label = EmptyText]
    IN  Then(Then(Then(Then(Then(s, update_breakdown), calculate_range),
                  calculate_charge_time_and_remaining_range),
             calculate_cutoff_metrics), PercentageAfter)

-----------------------------------------------------------------------------
(* Ride log average and the efficiency toggle *)

(* The value of a key of a ride record: Num is a JSON number, NumStr a    *)
(* string that holds a numeral, BadText any other string.  float() takes   *)
(* numbers and numerals; the format code .2f takes numbers only.           *)
NumStr(r) == [k |-> "str", v |-> r]
RideFloatOk(t) == t.k \in {"num", "str"}
RideFormatOk(t) == t.k = "num"

(* F applied to the object x unless an exception has ended the handler *)
Continue(x, F(_)) ==
    CHOOSE y \in {IF v.raised = "none" THEN F(v) ELSE v : v \in {x}} : TRUE

(* an exception no except clause catches leaves the handler *)
Escapes(s0) == CHOOSE r \in {[s EXCEPT !.escaped = (s.raised # "none")] : s \in {s0}} : TRUE

(* a variant that averages the Wh/mile of the rides, one by one *)
RECURSIVE TotalsOf_PerRide(_)
TotalsOf_PerRide(log) ==
    IF log = <<>> THEN [wh |-> Zero, dist |-> Zero]
    ELSE LET rest == TotalsOf_PerRide(Tail(log))
             ride == Head(log)
         IN  IF RideFloatOk(ride.wh_consumed) /\ RideFloatOk(ride.distance_miles)
                /\ ride.distance_miles.v # Zero
             THEN [wh |-> RAdd(RDiv(ride.wh_consumed.v, ride.distance_miles.v), rest.wh),
                   dist |-> RAdd(R(1), rest.dist)]
             ELSE rest
(* One pass of the loop of calculate_average_efficiency: a ride whose      *)
(* wh_consumed or distance_miles float() rejects adds to neither total     *)
RECURSIVE TotalsOf(_)
TotalsOf(log) ==
    IF log = <<>> THEN [wh |-> Zero, dist |-> Zero]
    ELSE LET rest == TotalsOf(Tail(log))
             ride == Head(log)
         IN  IF RideFloatOk(ride.wh_consumed) /\ RideFloatOk(ride.distance_miles)
             THEN [wh |-> RAdd(ride.wh_consumed.v, rest.wh),
                   dist |-> RAdd(ride.distance_miles.v, rest.dist)]
             ELSE rest

(* calculate_average_efficiency: 1 / average raises ZeroDivisionError      *)
(* before the labels and the attribute are written when the total Wh is 0  *)
calculate_average_efficiency(s0) ==
    LET Average(s) ==
        LET Store(tot) ==
                IF RLt(Zero, tot.dist)
                THEN IF tot.wh = Zero THEN [s EXCEPT !.raised = "ZeroDivisionError"]
                     ELSE LET average_wh_per_mile == RDiv(tot.wh, tot.dist)
                              average_miles_per_wh == RDiv(R(1), average_wh_per_mile)
                          IN  [s EXCEPT
                                !.average_wh_per_mile_label = Num(Fmt2(average_wh_per_mile)),
                                !.average_miles_per_wh_label = Num(Fmt2(average_miles_per_wh)),
                                !.logged_wh_per_mile_average = average_wh_per_mile]
                ELSE [s EXCEPT
                       !.average_wh_per_mile_label = Text("N/A (No rides logged or invalid data)"),
                       !.average_miles_per_wh_label = Text("N/A (No rides logged or invalid data)"),
                       !.logged_wh_per_mile_average = Zero]
        IN  Then(TotalsOf(s.all_profiles[s.current_profile_name].ride_log), Store)
    IN  Then(s0, Average)

(* update_ride_log_table: the rows of the table are the rides of the log;  *)
(* formatting a value that is a string raises ValueError                   *)
update_ride_log_table(s) ==
    LET current_profile_log == s.all_profiles[s.current_profile_name].ride_log
    IN  IF \A i \in 1..Len(current_profile_log) :
               /\ RideFormatOk(current_profile_log[i].distance_miles)
               /\ RideFormatOk(current_profile_log[i].start_percent)
               /\ RideFormatOk(current_profile_log[i].end_percent)
               /\ RideFormatOk(current_profile_log[i].wh_consumed)
               /\ RideFormatOk(current_profile_log[i].wh_per_mile)
        THEN s
        ELSE [s EXCEPT !.raised = "ValueError"]

(* update_last_ride_display formats the values of last_ride_data *)
update_last_ride_display(s) ==
    IF \A i \in 1..Len(s.last_ride_data) :
           /\ RideFormatOk(s.last_ride_data[i].distance_miles)
           /\ RideFormatOk(s.last_ride_data[i].wh_consumed)
           /\ RideFormatOk(s.last_ride_data[i].wh_per_mile)
    THEN s
    ELSE [s EXCEPT !.raised = "ValueError"]

(* _save_all_profiles_to_file *)
SaveAllProfilesToFile(s, last_active_profile_name) ==
    [s EXCEPT !.settings_file = [json |-> "object",
                                 profiles |-> s.all_profiles,
                                 keys |-> s.profile_keys,
                                 last_active_profile |-> last_active_profile_name]]

(* last_ride_data of a log: its last ride, or {} *)
LastOf(log) == IF log = <<>> THEN <<>> ELSE <<log[Len(log)]>>

(* a mandatory key a ride entry of an imported file does not have *)
Absent == [k |-> "absent", v |-> Zero]
(* ride_entry.setdefault(key, 0.0), for the keys of a ride the model keeps *)
SetDefaults(ride_entry) ==
    [key \in DOMAIN ride_entry |->
        IF ride_entry[key] = Absent THEN Num(Zero) ELSE ride_entry[key]]

(* The file chosen in the dialog: json tells what json.load makes of it    *)
(* ("list", "object" for any other JSON value, "invalid" for a text that   *)
(* is no JSON, "missing" for a file that cannot be opened), entries the    *)
(* elements of the list.  An element that is no JSON object is NotADict.   *)
ListFile(entries) == [json |-> "list", entries |-> entries]
OtherFile(json) == [json |-> json, entries |-> <<>>]
NotADict == [not_a_dict |-> TRUE]

(* import_ride_log_from_file with the file chosen in the dialog; what is   *)
(* raised on the way is caught by one of the handler's except clauses      *)
import_ride_log_from_file(s0, imported_file) ==
    LET Import(s) ==
        LET name == s.current_profile_name
            imported_log == [i \in 1..Len(imported_file.entries) |->
                                SetDefaults(imported_file.entries[i])]
            current_profile_log == s.all_profiles[name].ride_log \o imported_log
            extended == [s EXCEPT
                !.all_profiles[name].ride_log = current_profile_log,
                !.all_profiles[name].last_ride_data = LastOf(current_profile_log),
                !.last_ride_data = LastOf(current_profile_log)]
            Save(s4) == SaveAllProfilesToFile(s4, s4.current_profile_name)
        IN  Continue(Continue(Continue(Continue(extended,
                update_ride_log_table), calculate_average_efficiency),
                update_last_ride_display), Save)
    IN  IF imported_file.json = "missing" THEN [s0 EXCEPT !.raised = "FileNotFoundError"]
        ELSE IF imported_file.json = "invalid" THEN [s0 EXCEPT !.raised = "JSONDecodeError"]
        ELSE IF imported_file.json # "list" THEN s0
        ELSE IF \E i \in 1..Len(imported_file.entries) : imported_file.entries[i] = NotADict
             THEN [s0 EXCEPT !.raised = "AttributeError"]
        ELSE Then(s0, Import)

(* a variant that takes a state at face value, whatever its type *)
RidePercent_FaceValue(state_type, value, min_v, max_v) ==
    [ok |-> RLe(Zero, value) /\ RLe(value, R(100)), percent |-> value]
(* The percentage log_ride takes a start or end state for: a percentage    *)
(* of [0, 100] itself, a voltage of [min_v, max_v] by the linear map;      *)
(* ok = FALSE is the warning that ends the handler                         *)
RidePercent(state_type, value, min_v, max_v) ==
    IF state_type = "percentage"
    THEN [ok |-> RLe(Zero, value) /\ RLe(value, R(100)), percent |-> value]
    ELSE [ok |-> RLe(min_v, value) /\ RLe(value, max_v),
          percent |-> RMul(RDiv(RSub(value, min_v), RSub(max_v, min_v)), R(100))]

(* ride_data: the distance as entered, the other values round(x, 2) *)
RideData(distance_miles, start_percent, end_percent, wh_consumed) ==
    [distance_miles |-> Num(distance_miles),
     start_percent |-> Num(Fmt2(start_percent)),
     end_percent |-> Num(Fmt2(end_percent)),
     wh_consumed |-> Num(Fmt2(wh_consumed)),
     wh_per_mile |-> Num(Fmt2(RDiv(wh_consumed, distance_miles)))]

(* log_ride with the texts of the distance, start and end fields and the   *)
(* two state types of the Ride Log tab; every exception is caught by one   *)
(* of the handler's three except clauses                                   *)
log_ride(s0, ride_distance, start_state_type, ride_start_value, end_state_type, ride_end_value) ==
    LET Append_(s, ride_data) ==
            LET name == s.current_profile_name
                appended == [s EXCEPT
                    !.all_profiles[name].ride_log = Append(@, ride_data),
                    !.all_profiles[name].last_ride_data = <<ride_data>>,
                    !.last_ride_data = <<ride_data>>]
                Save(s4) == SaveAllProfilesToFile(s4, s4.current_profile_name)
            IN  Continue(Continue(Continue(Continue(appended,
                    update_last_ride_display), update_ride_log_table),
                    calculate_average_efficiency), Save)
        Convert(derived) ==
            LET s == derived.self
                min_v == derived.ret.min_v
                max_v == derived.ret.max_v
            IN  IF ~derived.ret.ok \/ RLe(RSub(max_v, min_v), Zero) THEN s
                ELSE LET start == RidePercent(start_state_type, ride_start_value.v, min_v, max_v)
                         end == RidePercent(end_state_type, ride_end_value.v, min_v, max_v)
                         total_battery_wh == TotalEnergyWh(s.capacity_entry.v,
                                                 s.capacity_type_combo, s.voltage_entry.v)
                         wh_consumed == RMul(total_battery_wh,
                                             RDiv(RSub(start.percent, end.percent), R(100)))
                     IN  IF ~start.ok \/ ~end.ok THEN s
                         ELSE IF RLe(start.percent, end.percent) THEN s
                         ELSE IF RLe(wh_consumed, Zero) THEN s
                         ELSE Append_(s, RideData(ride_distance.v, start.percent,
                                                  end.percent, wh_consumed))
        Log(s) ==
            IF ~FloatOk(ride_distance) THEN [s EXCEPT !.raised = "ValueError"]
            ELSE IF RLe(ride_distance.v, Zero) THEN s
            ELSE IF ~FloatOk(ride_start_value) \/ ~FloatOk(ride_end_value)
                    \/ ~FloatOrZeroOk(s.voltage_entry) \/ ~FloatOrZeroOk(s.capacity_entry)
                 THEN [s EXCEPT !.raised = "ValueError"]
            ELSE IF RLe(FloatOrZero(s.voltage_entry), Zero)
                    \/ RLe(FloatOrZero(s.capacity_entry), Zero) THEN s
            ELSE Then(get_derived_voltage_range_and_s(s), Convert)
    IN  Then(s0, Log)

(* the log without the rows selected in the table *)
RECURSIVE WithoutRows(_, _, _)
WithoutRows(log, rows, i) ==
    IF i > Len(log) THEN <<>>
    ELSE (IF i \in rows THEN <<>> ELSE <<log[i]>>) \o WithoutRows(log, rows, i + 1)

(* delete_selected_rides with the rows selected (counted from 1) and the   *)
(* question answered Yes; the handler has no except clause                 *)
delete_selected_rides(s0, selected_rows) ==
    LET Delete(s) ==
        LET name == s.current_profile_name
            current_log == WithoutRows(s.all_profiles[name].ride_log, selected_rows, 1)
            popped == [s EXCEPT !.all_profiles[name].ride_log = current_log]
            LastRide(s3) == [s3 EXCEPT
                !.last_ride_data = LastOf(current_log),
                !.all_profiles[name].last_ride_data = LastOf(current_log)]
            Save(s5) == SaveAllProfilesToFile(s5, s5.current_profile_name)
        IN  Escapes(Continue(Continue(Continue(Continue(Continue(popped,
                update_ride_log_table), calculate_average_efficiency),
                LastRide), update_last_ride_display), Save))
    IN  IF selected_rows = {} THEN s0 ELSE Then(s0, Delete)

reset_efficiency_source(s0) ==
    CHOOSE r \in {calculate_all([s EXCEPT !.use_logged_efficiency = FALSE,
                                          !.logged_wh_per_mile_average = Zero,
                                          !.efficiency_source_label = Text("Predicted")])
                     : s \in {s0}} : TRUE

apply_logged_efficiency_to_calculator(s0) ==
    CHOOSE r \in {(IF RLt(Zero, s.logged_wh_per_mile_average)
                   THEN calculate_all([s EXCEPT !.use_logged_efficiency = TRUE])
                   ELSE [s EXCEPT !.use_logged_efficiency = FALSE,
                                  !.efficiency_source_label = Text("Predicted")])
                     : s \in {s0}} : TRUE

-----------------------------------------------------------------------------
(* Profiles *)

(* profile_combo.setCurrentText(text): the combo is not editable, so a     *)
(* text that is none of its items changes nothing.  The slot of            *)
(* currentTextChanged, on_profile_selection, is called by the handlers     *)
(* below where the text changes.                                           *)
SetCurrentText(combo, text) ==
    IF \E i \in 1..Len(combo.items) : combo.items[i] = text
    THEN [combo EXCEPT !.text = text] ELSE combo

(* load_profile_data: clear_fields and the setText calls emit signals      *)
(* whose slots run on half-populated fields; every label and attribute     *)
(* they write is written again by the calls that follow the population.    *)
(* Setting the combo's text calls on_profile_selection with the name that  *)
(* current_profile_name already holds, which does nothing.                 *)
load_profile_data(s0, profile_name) ==
    CHOOSE loaded \in {(
    IF profile_name \notin DOMAIN s.all_profiles THEN s
    ELSE LET settings == s.all_profiles[profile_name]
             populated == [s EXCEPT
                 !.current_profile_name = profile_name,
                 !.profile_combo = SetCurrentText(@, profile_name),
                 !.voltage_entry = settings.voltage,
                 !.series_cells_entry = settings.series_cells,
                 !.capacity_type_combo = settings.capacity_type,
                 !.capacity_entry = settings.capacity,
                 !.charge_rate_entry = settings.charge_rate,
                 !.charging_duration_combo = settings.charging_duration_hours,
                 !.current_percentage_entry = settings.current_percentage,
                 !.current_voltage_entry = settings.current_voltage,
                 !.preferred_cutoff_entry = settings.preferred_cutoff_percentage,
                 !.percent_radio = (settings.charge_input_method = "percentage"),
                 !.wheel_diameter_entry = settings.wheel_diameter,
                 !.driving_style_combo = settings.driving_style]
             LastRide(s3) == [s3 EXCEPT !.last_ride_data = settings.last_ride_data]
         IN  Escapes(Continue(Continue(Continue(Continue(
                 reset_efficiency_source(update_voltage_info_labels(populated)),
                 update_ride_log_table), calculate_average_efficiency),
                 LastRide), update_last_ride_display))
    ) : s \in {s0}} : TRUE

(* _get_default_profile_settings *)
DefaultProfileSettings == [
    voltage |-> EmptyText, series_cells |-> EmptyText, capacity_type |-> "Wh",
    capacity |-> EmptyText, charge_rate |-> EmptyText,
    charging_duration_hours |-> EmptyText,
    current_percentage |-> Num(Zero), current_voltage |-> EmptyText,
    charge_input_method |-> "percentage", wheel_diameter |-> EmptyText,
    driving_style |-> "Casual", preferred_cutoff_percentage |-> Num(R(25)),
    ride_log |-> <<>>, last_ride_data |-> <<>>]

(* a settings file with the profiles under the keys, in their order *)
SettingsFile(profiles, keys, last_active_profile) ==
    [json |-> "object", profiles |-> profiles, keys |-> keys,
     last_active_profile |-> last_active_profile]
(* no settings file, or one json.load fails on *)
NoSettingsFile(json) == [SettingsFile(<<>>, <<>>, "") EXCEPT !.json = json]
OnlyDefaultProfile == [n \in {"Default Profile"} |-> DefaultProfileSettings]

(* load_all_profiles: the profiles, their keys and the current profile     *)
(* name the settings file gives                                            *)
load_all_profiles(file) ==
    IF file.json # "object" \/ file.keys = <<>>
    THEN [all_profiles |-> OnlyDefaultProfile, profile_keys |-> <<"Default Profile">>,
          current_profile_name |-> "Default Profile"]
    ELSE [all_profiles |-> file.profiles, profile_keys |-> file.keys,
          current_profile_name |->
              IF /\ file.last_active_profile # ""
                 /\ file.last_active_profile \in DOMAIN file.profiles
              THEN file.last_active_profile ELSE file.keys[1]]

(* The object __init__ has built, load_all_profiles included, before it    *)
(* fills the profile combo and loads the initial profile                   *)
Constructed(file) == [
    voltage_entry |-> EmptyText, series_cells_entry |-> EmptyText,
    series_cells_visible |-> TRUE,
    capacity_type_combo |-> "Wh", capacity_entry |-> EmptyText,
    charge_rate_entry |-> EmptyText, charging_duration_combo |-> EmptyText,
    current_percentage_entry |-> Num(Zero), current_voltage_entry |-> EmptyText,
    percent_radio |-> TRUE, wheel_diameter_entry |-> EmptyText,
    driving_style_combo |-> "Casual", preferred_cutoff_entry |-> Num(R(25)),
    use_logged_efficiency |-> FALSE, logged_wh_per_mile_average |-> Zero,
    full_charge_range |-> Zero,
    all_profiles |-> load_all_profiles(file).all_profiles,
    profile_keys |-> load_all_profiles(file).profile_keys,
    profile_combo |-> [items |-> <<>>, text |-> ""],
    current_profile_name |-> load_all_profiles(file).current_profile_name,
    min_voltage_info_label |-> Text("Empty V: N/A"),
    max_voltage_info_label |-> Text("Full Charge V: N/A"),
    breakdown_series_cells_label |-> EmptyText,
    current_state_percent_result_label |-> EmptyText,
    current_state_voltage_result_label |-> EmptyText,
    calculated_range_label |-> EmptyText, miles_per_wh_label |-> EmptyText,
    miles_per_ah_label |-> EmptyText,
    efficiency_source_label |-> Text("Predicted"),
    charge_time_label |-> EmptyText,
    remaining_charge_percentage_label |-> EmptyText,
    remaining_range_label |-> EmptyText,
    range_to_cutoff_label |-> EmptyText,
    charge_time_from_cutoff_label |-> EmptyText,
    percentage_after_charge_label |-> EmptyText,
    results_charge_duration_label |-> EmptyText,
    average_wh_per_mile_label |-> Text("Average Wh/mile: N/A"),
    average_miles_per_wh_label |-> Text("Average Miles/Wh: N/A"),
    last_ride_data |-> <<>>,
    settings_file |-> file,
    raised |-> "none", escaped |-> FALSE]

(* on_profile_selection, the slot of profile_combo.currentTextChanged *)
on_profile_selection(s, profile_name) ==
    IF s.current_profile_name # profile_name THEN load_profile_data(s, profile_name) ELSE s

(* profile_combo.clear(): a combo that showed a text now shows none, and   *)
(* the change of the text calls on_profile_selection                       *)
profile_combo_clear(s) ==
    IF s.profile_combo.text = "" THEN [s EXCEPT !.profile_combo.items = <<>>]
    ELSE on_profile_selection(
             [s EXCEPT !.profile_combo = [items |-> <<>>, text |-> ""]], "")
(* profile_combo.addItems(keys): the first item added to an empty combo    *)
(* becomes its current text, which calls on_profile_selection              *)
profile_combo_addItems(s) ==
    IF s.profile_keys = <<>> THEN s
    ELSE on_profile_selection(
             [s EXCEPT !.profile_combo = [items |-> s.profile_keys,
                                          text |-> s.profile_keys[1]]],
             s.profile_keys[1])
(* profile_combo.setCurrentText(self.current_profile_name) *)
profile_combo_setCurrentText(s) ==
    LET combo == SetCurrentText(s.profile_combo, s.current_profile_name)
    IN  IF combo.text = s.profile_combo.text THEN s
        ELSE on_profile_selection([s EXCEPT !.profile_combo = combo], combo.text)
(* update_profile_combo: clear, addItems, setCurrentText *)
update_profile_combo(s0) ==
    Continue(Continue(Then(s0, profile_combo_clear), profile_combo_addItems),
             profile_combo_setCurrentText)

(* __init__: load_all_profiles, update_profile_combo, load_profile_data *)
BatteryCalculatorGUI(file) ==
    CHOOSE r \in {IF s.raised = "none" THEN load_profile_data(s, s.current_profile_name)
                  ELSE s : s \in {update_profile_combo(Constructed(file))}} : TRUE

(* clear_fields: the slots the cleared widgets call run before the calls   *)
(* below and write nothing these leave as it is                            *)
clear_fields(s0) ==
    CHOOSE r \in {(
        LET cleared == [s EXCEPT
                !.voltage_entry = EmptyText, !.series_cells_entry = EmptyText,
                !.capacity_entry = EmptyText, !.charge_rate_entry = EmptyText,
                !.charging_duration_combo = EmptyText,
                !.current_percentage_entry = Num(Zero),
                !.current_voltage_entry = EmptyText,
                !.wheel_diameter_entry = EmptyText,
                !.preferred_cutoff_entry = Num(R(25)),
                !.capacity_type_combo = "Wh", !.driving_style_combo = "Casual",
                !.percent_radio = TRUE,
                !.calculated_range_label = EmptyText,
                !.remaining_range_label = EmptyText,
                !.remaining_charge_percentage_label = EmptyText,
                !.charge_time_label = EmptyText,
                !.miles_per_wh_label = EmptyText, !.miles_per_ah_label = EmptyText,
                !.percentage_after_charge_label = EmptyText,
                !.range_to_cutoff_label = EmptyText,
                !.charge_time_from_cutoff_label = EmptyText,
                !.current_state_percent_result_label = EmptyText,
                !.current_state_voltage_result_label = EmptyText,
                !.results_charge_duration_label = EmptyText,
                !.breakdown_series_cells_label = EmptyText]
            LastRide(s3) == [s3 EXCEPT !.last_ride_data = <<>>]
        IN  Escapes(Continue(Continue(Continue(Continue(
                reset_efficiency_source(update_voltage_info_labels(cleared)),
                update_ride_log_table), calculate_average_efficiency),
                LastRide), update_last_ride_display))
    ) : s \in {s0}} : TRUE

(* save_current_profile: the profile is replaced by the field values, the  *)
(* ride log it holds, and self.last_ride_data                              *)
save_current_profile(s0) ==
    LET Save(s) ==
        LET profile_name == s.current_profile_name
            current_settings == [
                voltage |-> s.voltage_entry,
                series_cells |-> IF s.series_cells_visible THEN s.series_cells_entry
                                 ELSE EmptyText,
                capacity_type |-> s.capacity_type_combo,
                capacity |-> s.capacity_entry,
                charge_rate |-> s.charge_rate_entry,
                charging_duration_hours |-> s.charging_duration_combo,
                current_percentage |-> s.current_percentage_entry,
                current_voltage |-> s.current_voltage_entry,
                charge_input_method |-> IF s.percent_radio THEN "percentage" ELSE "voltage",
                wheel_diameter |-> s.wheel_diameter_entry,
                driving_style |-> s.driving_style_combo,
                preferred_cutoff_percentage |-> s.preferred_cutoff_entry,
                ride_log |-> s.all_profiles[profile_name].ride_log,
                last_ride_data |-> s.last_ride_data]
        IN  SaveAllProfilesToFile(
                [s EXCEPT !.all_profiles[profile_name] = current_settings], profile_name)
    IN  Then(s0, Save)

(* the profile limit *)
MAX_PROFILES == 10

(* The text of the "New Profile" dialog: name is the text without the      *)
(* whitespace around it, padded tells whether there is any                 *)
Typed(name) == [name |-> name, padded |-> FALSE]
Padded(name) == [name |-> name, padded |-> TRUE]

(* dict item assignment and del, on the profiles and their keys *)
WithProfile(s, name, settings) ==
    [s EXCEPT !.all_profiles = [n \in DOMAIN s.all_profiles \cup {name} |->
                                   IF n = name THEN settings ELSE s.all_profiles[n]],
              !.profile_keys = IF name \in DOMAIN s.all_profiles THEN @
                               ELSE Append(@, name)]
WithoutProfile(s, name) ==
    [s EXCEPT !.all_profiles = [n \in DOMAIN s.all_profiles \ {name} |-> s.all_profiles[n]],
              !.profile_keys = SelectSeq(@, LAMBDA n : n # name)]

(* a variant without the profile limit *)
create_new_profile_NoLimit(s0, new_name, ok) ==
    CHOOSE r \in {(
        LET name == new_name.name
            added == [WithProfile(s, name, DefaultProfileSettings)
                         EXCEPT !.current_profile_name = name]
            Save(s3) == SaveAllProfilesToFile(s3, s3.current_profile_name)
        IN  IF ~ok \/ (name = "" /\ ~new_name.padded) THEN s
            ELSE IF name = "" THEN s
            ELSE IF name \in DOMAIN s.all_profiles THEN s
            ELSE Continue(
                     CHOOSE r2 \in {IF s2.raised = "none" THEN load_profile_data(s2, name)
                                    ELSE s2 : s2 \in {update_profile_combo(added)}} : TRUE,
                     Save)
    ) : s \in {s0}} : TRUE
(* create_new_profile with the text of the dialog and the button pressed *)
create_new_profile(s0, new_name, ok) ==
    CHOOSE r \in {(
        LET name == new_name.name
            added == [WithProfile(s, name, DefaultProfileSettings)
                         EXCEPT !.current_profile_name = name]
            Save(s3) == SaveAllProfilesToFile(s3, s3.current_profile_name)
        IN  IF Len(s.profile_keys) >= MAX_PROFILES THEN s
            ELSE IF ~ok \/ (name = "" /\ ~new_name.padded) THEN s
            ELSE IF name = "" THEN s
            ELSE IF name \in DOMAIN s.all_profiles THEN s
            ELSE Continue(
                     CHOOSE r2 \in {IF s2.raised = "none" THEN load_profile_data(s2, name)
                                    ELSE s2 : s2 \in {update_profile_combo(added)}} : TRUE,
                     Save)
    ) : s \in {s0}} : TRUE

(* delete_selected_profile with the answer to the question *)
delete_selected_profile(s0, reply) ==
    CHOOSE r \in {(
        LET profile_to_delete == s.current_profile_name
            Save(s3) == SaveAllProfilesToFile(s3, s3.current_profile_name)
        IN  IF profile_to_delete = "Default Profile" /\ Len(s.profile_keys) = 1 THEN s
            ELSE IF profile_to_delete \notin DOMAIN s.all_profiles THEN s
            ELSE IF reply # "Yes" THEN s
            ELSE Continue(
                     CHOOSE r2 \in {
                         IF s2.raised # "none" THEN s2
                         ELSE IF s2.profile_keys # <<>>
                         THEN load_profile_data(
                                  [s2 EXCEPT !.current_profile_name = s2.profile_keys[1]],
                                  s2.profile_keys[1])
                         ELSE load_profile_data(
                                  [WithProfile(s2, "Default Profile", DefaultProfileSettings)
                                      EXCEPT !.current_profile_name = "Default Profile"],
                                  "Default Profile")
                         : s2 \in {update_profile_combo(WithoutProfile(s, profile_to_delete))}}
                         : TRUE,
                     Save)
    ) : s \in {s0}} : TRUE

(* __init__ with the settings file as it is on disk *)
StartsAs(s) ==
    \E r \in {s} :
       /\ voltage_entry = r.voltage_entry
       /\ series_cells_entry = r.series_cells_entry
       /\ series_cells_visible = r.series_cells_visible
       /\ capacity_type_combo = r.capacity_type_combo
       /\ capacity_entry = r.capacity_entry
       /\ charge_rate_entry = r.charge_rate_entry
       /\ charging_duration_combo = r.charging_duration_combo
       /\ current_percentage_entry = r.current_percentage_entry
       /\ current_voltage_entry = r.current_voltage_entry
       /\ percent_radio = r.percent_radio
       /\ wheel_diameter_entry = r.wheel_diameter_entry
       /\ driving_style_combo = r.driving_style_combo
       /\ preferred_cutoff_entry = r.preferred_cutoff_entry
       /\ use_logged_efficiency = r.use_logged_efficiency
       /\ logged_wh_per_mile_average = r.logged_wh_per_mile_average
       /\ full_charge_range = r.full_charge_range
       /\ all_profiles = r.all_profiles
       /\ profile_keys = r.profile_keys
       /\ profile_combo = r.profile_combo
       /\ current_profile_name = r.current_profile_name
       /\ min_voltage_info_label = r.min_voltage_info_label
       /\ max_voltage_info_label = r.max_voltage_info_label
       /\ breakdown_series_cells_label = r.breakdown_series_cells_label
       /\ current_state_percent_result_label = r.current_state_percent_result_label
       /\ current_state_voltage_result_label = r.current_state_voltage_result_label
       /\ calculated_range_label = r.calculated_range_label
       /\ miles_per_wh_label = r.miles_per_wh_label
       /\ miles_per_ah_label = r.miles_per_ah_label
       /\ efficiency_source_label = r.efficiency_source_label
       /\ charge_time_label = r.charge_time_label
       /\ remaining_charge_percentage_label = r.remaining_charge_percentage_label
       /\ remaining_range_label = r.remaining_range_label
       /\ range_to_cutoff_label = r.range_to_cutoff_label
       /\ charge_time_from_cutoff_label = r.charge_time_from_cutoff_label
       /\ percentage_after_charge_label = r.percentage_after_charge_label
       /\ results_charge_duration_label = r.results_charge_duration_label
       /\ average_wh_per_mile_label = r.average_wh_per_mile_label
       /\ average_miles_per_wh_label = r.average_miles_per_wh_label
       /\ last_ride_data = r.last_ride_data
       /\ settings_file = r.settings_file
       /\ raised = r.raised
       /\ escaped = r.escaped
       /\ last_op = "init"

(* a settings file that holds one profile, which is the last active one *)
InitWith(settings) ==
    StartsAs(BatteryCalculatorGUI(
        SettingsFile([n \in {"Default Profile"} |-> settings],
                     <<"Default Profile">>, "Default Profile")))


-----------------------------------------------------------------------------
(* Bounds of the input grids *)

(* wheel diameters typed: 0, 5, 10, ... , 5 * MaxWheelStep inches *)
MaxWheelStep == 6
(* percentages typed: 0, 25, 50, ... , 25 * MaxPercentStep *)
MaxPercentStep == 5
(* the charging-duration combo offers "0.5 hours", "1.0 hours", ...; the   *)
(* model keeps its first MaxDurationStep items                             *)
MaxDurationStep == 4
(* rides a ride log holds at most *)
MaxLogLen == 2

WheelGrid == {Num(R(5 * i)) : i \in 0..MaxWheelStep}
PercentGrid == {Num(R(25 * i)) : i \in 0..MaxPercentStep}
DurationItems == {EmptyText} \cup {Num(Norm(i, 2)) : i \in 1..MaxDurationStep}

-----------------------------------------------------------------------------
(* User events.  An edit of a line edit replaces its text and, where the   *)
(* widget's textChanged / currentTextChanged signal is connected, runs the *)
(* slot when the text has changed.                                         *)

edit_voltage(t) ==
    LET s == [Self EXCEPT !.voltage_entry = t]
    IN  Becomes(IF t = voltage_entry THEN s ELSE update_voltage_info_labels(s), "edit")

edit_series_cells(t) ==
    /\ series_cells_visible
    /\ LET s == [Self EXCEPT !.series_cells_entry = t]
       IN  Becomes(IF t = series_cells_entry THEN s ELSE update_voltage_info_labels(s), "edit")

select_capacity_type(c) == Becomes([Self EXCEPT !.capacity_type_combo = c], "edit")

edit_capacity(t) == Becomes([Self EXCEPT !.capacity_entry = t], "edit")

edit_charge_rate(t) == Becomes([Self EXCEPT !.charge_rate_entry = t], "edit")

select_charging_duration(t) == Becomes([Self EXCEPT !.charging_duration_combo = t], "edit")

edit_current_percentage(t) ==
    /\ percent_radio
    /\ Becomes([Self EXCEPT !.current_percentage_entry = t], "edit")

edit_current_voltage(t) ==
    /\ ~percent_radio
    /\ Becomes([Self EXCEPT !.current_voltage_entry = t], "edit")

(* the two radio buttons of charge_input_method_group; toggle_charge_input *)
(* shows the entry of the checked one                                      *)
toggle_charge_input(b) == Becomes([Self EXCEPT !.percent_radio = b], "edit")

edit_wheel_diameter(t) ==
    /\ t # wheel_diameter_entry
    /\ Becomes(calculate_all([Self EXCEPT !.wheel_diameter_entry = t]), "calculate_all")

select_driving_style(d) ==
    /\ d # driving_style_combo
    /\ Becomes(calculate_all([Self EXCEPT !.driving_style_combo = d]), "calculate_all")

edit_preferred_cutoff(t) ==
    /\ t # preferred_cutoff_entry
    /\ Becomes(calculate_all([Self EXCEPT !.preferred_cutoff_entry = t]), "calculate_all")

click_calculate == Becomes(calculate_all(Self), "calculate_all")

click_apply_logged_efficiency ==
    Becomes(apply_logged_efficiency_to_calculator(Self), "apply_logged_efficiency_to_calculator")

click_reset_efficiency ==
    Becomes(reset_efficiency_source(Self), "reset_efficiency_source")

click_load_profile ==
    Becomes(load_profile_data(Self, profile_combo.text), "load_profile_data")

(* a profile picked in the combo: the text changes, the slot runs *)
select_profile(profile_name) ==
    /\ profile_name # profile_combo.text
    /\ \E i \in 1..Len(profile_combo.items) : profile_combo.items[i] = profile_name
    /\ Becomes(on_profile_selection(
                   [Self EXCEPT !.profile_combo.text = profile_name], profile_name),
               "on_profile_selection")

click_clear == Becomes(clear_fields(Self), "clear_fields")

click_save_profile == Becomes(save_current_profile(Self), "save_current_profile")

click_new_profile(new_name, ok) ==
    Becomes(create_new_profile(Self, new_name, ok), "create_new_profile")

click_delete_profile(reply) ==
    Becomes(delete_selected_profile(Self, reply), "delete_selected_profile")

(* the window is closed: closeEvent saves the current profile and the      *)
(* program ends                                                            *)
closeEvent ==
    /\ last_op # "closeEvent"
    /\ Becomes(save_current_profile(Self), "closeEvent")

(* the program is started again, with the settings file as it was left *)
start ==
    /\ last_op = "closeEvent"
    /\ Becomes(BatteryCalculatorGUI(settings_file), "init")

(* the program is running *)
Running == last_op # "closeEvent"

click_import_ride_log(imported_file) ==
    /\ Len(all_profiles[current_profile_name].ride_log) + Len(imported_file.entries) <= MaxLogLen
    /\ Becomes(import_ride_log_from_file(Self, imported_file), "import_ride_log_from_file")

(* the texts typed into the Ride Log tab, then "Log Ride" *)
click_log_ride(ride_distance, start_state_type, ride_start_value, end_state_type, ride_end_value) ==
    /\ Len(all_profiles[current_profile_name].ride_log) < MaxLogLen
    /\ Becomes(log_ride(Self, ride_distance, start_state_type, ride_start_value,
                        end_state_type, ride_end_value), "log_ride")

click_delete_selected_rides(selected_rows) ==
    /\ selected_rows # {}
    /\ selected_rows \subseteq 1..Len(all_profiles[current_profile_name].ride_log)
    /\ Becomes(delete_selected_rides(Self, selected_rows), "delete_selected_rides")

(* The labels show the results of calculate_all on the inputs as they are: *)
(* the handler that ran last ended with a complete calculate_all, and      *)
(* nothing calculate_all reads has changed since                           *)
Calculated ==
    \/ last_op \in {"calculate_all", "reset_efficiency_source"}
    \/ last_op = "apply_logged_efficiency_to_calculator" /\ use_logged_efficiency
    \/ last_op \in {"init", "load_profile_data"}

-----------------------------------------------------------------------------
(* Initial profiles *)

(* a ride record, of which the model keeps the five numeric keys *)
Ride(wh, dist) == [
    distance_miles |-> Num(dist), start_percent |-> Num(R(50)),
    end_percent |-> Num(R(25)), wh_consumed |-> Num(wh),
    wh_per_mile |-> Num(IF dist = Zero THEN Zero ELSE Fmt2(RDiv(wh, dist)))]

(* a stored 52 V, 20 Ah pack on 27.5 in wheels *)
Pack52 == [
    voltage |-> Num(R(52)), series_cells |-> Num(R(14)), capacity_type |-> "Ah",
    capacity |-> Num(R(20)), charge_rate |-> Num(R(2)),
    charging_duration_hours |-> EmptyText,
    current_percentage |-> Num(R(50)), current_voltage |-> Num(<<252, 5>>),
    charge_input_method |-> "percentage", wheel_diameter |-> Num(<<55, 2>>),
    driving_style |-> "Eco", preferred_cutoff_percentage |-> Num(R(25)),
    ride_log |-> <<>>, last_ride_data |-> <<>>]

(* the profile with a ride log, as the program stores it: the last ride is *)
(* the last of the log                                                     *)
WithLog(settings, log) ==
    [settings EXCEPT !.ride_log = log,
                     !.last_ride_data = IF log = <<>> THEN <<>> ELSE <<log[Len(log)]>>]

-----------------------------------------------------------------------------
(* What the results are measured against.  These definitions restate the   *)
(* quantities of the calculator from its inputs, without the handlers.     *)

Within(x, y, tol) == RLe(RSub(x, y), tol) /\ RLe(RSub(y, x), tol)
(* a label shows x to two decimals *)
Shows(label, x) == label.k = "num" /\ Within(label.v, x, <<1, 200>>)
(* a label shows the duration of h hours to the minute *)
ShowsMinutes(label, h) == label.k = "time" /\ Within(label.v, RMul(h, R(60)), <<1, 2>>)
Positive(t) == FloatOk(t) /\ RLt(Zero, t.v)
InPercentRange(x) == RLe(Zero, x) /\ RLe(x, R(100))

(* nominal voltage and series cell count of the standard packs *)
StandardPacks == {<<36, 10>>, <<48, 13>>, <<52, 14>>, <<60, 16>>, <<72, 20>>}
IsPackOf(t, pack) == FloatOk(t) /\ Within(t.v, R(pack[1]), <<1, 2>>)
StandardVoltage(t) == \E pack \in StandardPacks : IsPackOf(t, pack)
CellsOf(t) == (CHOOSE pack \in StandardPacks : IsPackOf(t, pack))[2]

EnergyWh ==
    IF capacity_type_combo = "Ah" THEN RMul(capacity_entry.v, voltage_entry.v)
    ELSE capacity_entry.v
AmpHours ==
    IF capacity_type_combo = "Ah" THEN capacity_entry.v
    ELSE RDiv(capacity_entry.v, voltage_entry.v)
PackValid == Positive(voltage_entry) /\ Positive(capacity_entry)
RangeInputsValid == PackValid /\ Positive(wheel_diameter_entry)

(* the current state of charge the inputs resolve to *)
StateResolves ==
    /\ StandardVoltage(voltage_entry)
    /\ IF percent_radio
       THEN FloatOk(current_percentage_entry) /\ InPercentRange(current_percentage_entry.v)
       ELSE FloatOk(current_voltage_entry)
StatePercent ==
    IF percent_radio THEN current_percentage_entry.v
    ELSE LET n == R(CellsOf(voltage_entry))
             raw == RDiv(RMul(RSub(current_voltage_entry.v, RMul(n, R(3))), R(100)),
                         RMul(n, <<6, 5>>))
         IN  IF RLt(raw, Zero) THEN Zero ELSE IF RLt(R(100), raw) THEN R(100) ELSE raw

CutoffValid ==
    FloatOrZeroOk(preferred_cutoff_entry) /\ InPercentRange(FloatOrZero(preferred_cutoff_entry))
CutoffPercent == FloatOrZero(preferred_cutoff_entry)

(* smallRef * (1 - t) + largeRef * t, t being (d - 10) / 17.5 held in [0, 1] *)
ReferenceWhPerMile(style, d) ==
    LET small == CASE style = "Eco" -> <<832, 25>> [] style = "Casual" -> R(30)
                   [] style = "Agressive" -> R(45)
        large == CASE style = "Eco" -> <<208, 5>> [] style = "Casual" -> R(65)
                   [] style = "Agressive" -> R(80)
    IN  IF RLe(d, R(10)) THEN small
        ELSE IF RLe(<<55, 2>>, d) THEN large
        ELSE RAdd(small, RDiv(RMul(RSub(large, small), RSub(d, R(10))), <<35, 2>>))

-----------------------------------------------------------------------------
(* Range: wheel diameters, driving styles, capacity type, efficiency source *)

RangeLogs == {<<>>, <<Ride(R(100), R(10)), Ride(R(100), R(10))>>,
              <<Ride(R(300), R(4))>>}
WheelTexts == WheelGrid \cup {Num(<<55, 2>>), EmptyText, BadText, Num(R(-5))}

InitRange == \E log \in RangeLogs : InitWith(WithLog(Pack52, log))
NextRange ==
    \/ \E t \in WheelTexts : edit_wheel_diameter(t)
    \/ \E d \in Styles : select_driving_style(d)
    \/ \E c \in {"Wh", "Ah"} : select_capacity_type(c)
    \/ click_calculate
    \/ click_apply_logged_efficiency
    \/ click_reset_efficiency
    \/ click_load_profile
SpecRange == InitRange /\ [][NextRange]_vars

(* C1: with 52 V, capacity 20, Eco, 27.5 in wheels and the predicted       *)
(* efficiency, a capacity in Ah is 52 * 20 = 1040 Wh of energy and the     *)
(* full range is exactly 25 miles at 41.6 Wh/mile; a capacity in Wh is the *)
(* energy itself, 20 Wh, and the range 20 / 41.6 miles                     *)
C1_ReferenceScenario ==
    (/\ Calculated
     /\ voltage_entry = Num(R(52)) /\ capacity_entry = Num(R(20))
     /\ driving_style_combo = "Eco" /\ wheel_diameter_entry = Num(<<55, 2>>)
     /\ ~(use_logged_efficiency /\ RLt(Zero, logged_wh_per_mile_average)))
    => /\ efficiency_source_label = Text("Predicted")
       /\ capacity_type_combo = "Ah" =>
             /\ full_charge_range = R(25)
             /\ calculated_range_label = Num(R(25))
             /\ RMul(full_charge_range, <<208, 5>>) = R(1040)
       /\ capacity_type_combo = "Wh" =>
             /\ RMul(full_charge_range, <<208, 5>>) = R(20)
             /\ Shows(calculated_range_label, RDiv(R(20), <<208, 5>>))

C1_Reached ==
    /\ last_op = "calculate_all"
    /\ voltage_entry = Num(R(52)) /\ capacity_entry = Num(R(20))
    /\ capacity_type_combo = "Ah"
    /\ driving_style_combo = "Eco" /\ wheel_diameter_entry = Num(<<55, 2>>)
    /\ efficiency_source_label = Text("Predicted")
    /\ full_charge_range = R(25)

(* C2: the predicted Wh/mile is smallRef * (1 - t) + largeRef * t with t = *)
(* (d - 10) / 17.5 held in [0, 1]: the small-wheel value at and below      *)
(* 10 in, the large-wheel value at and above 27.5 in, and the full range   *)
(* is the energy divided by it                                             *)
C2_PredictedEfficiency ==
    (/\ Calculated
     /\ RangeInputsValid
     /\ ~(use_logged_efficiency /\ RLt(Zero, logged_wh_per_mile_average)))
    => LET wh_per_mile == ReferenceWhPerMile(driving_style_combo, wheel_diameter_entry.v)
       IN  /\ efficiency_source_label = Text("Predicted")
           /\ full_charge_range = RDiv(EnergyWh, wh_per_mile)
           /\ Shows(calculated_range_label, RDiv(EnergyWh, wh_per_mile))
           /\ Shows(miles_per_wh_label, RDiv(R(1), wh_per_mile))

C2_Reached ==
    /\ last_op = "calculate_all"
    /\ wheel_diameter_entry = Num(R(15)) /\ driving_style_combo = "Casual"
    /\ capacity_type_combo = "Ah"
    /\ efficiency_source_label = Text("Predicted")
    /\ full_charge_range = RDiv(R(1040), R(40))

-----------------------------------------------------------------------------
(* Geometry: nominal voltages in and outside the table, manual cell counts *)

VoltageTexts == {Num(R(36)), Num(R(48)), Num(R(52)), Num(R(60)), Num(R(72)),
                 Num(<<95, 2>>), Num(<<97, 2>>), Num(R(50)), Num(Zero),
                 EmptyText, BadText}
SeriesTexts == {Num(R(12)), Num(Zero), EmptyText, BadText}

InitGeometry == InitWith(Pack52)
NextGeometry ==
    \/ \E t \in VoltageTexts : edit_voltage(t)
    \/ \E t \in SeriesTexts : edit_series_cells(t)
    \/ \E b \in BOOLEAN : toggle_charge_input(b)
    \/ click_calculate
SpecGeometry == InitGeometry /\ [][NextGeometry]_vars

(* C3: a nominal voltage that rounds to 36, 48, 52, 60 or 72 gives the     *)
(* table's cell count 10, 13, 14, 16 or 20 whatever the manual field       *)
(* holds; the empty voltage is cells * 3.0, the full voltage cells * 4.2,  *)
(* their difference cells * 1.2, and 0 < empty < full                      *)
C3_TableGeometry ==
    \A pack \in StandardPacks :
        IsPackOf(voltage_entry, pack) =>
            LET n == R(pack[2])
            IN  /\ \A t \in SeriesTexts \cup {series_cells_entry} :
                     LET g == get_derived_voltage_range_and_s(
                                  [Self EXCEPT !.series_cells_entry = t]).ret
                     IN  /\ g.ok /\ g.series_cells = pack[2]
                         /\ g.min_v = RMul(n, R(3))
                         /\ g.max_v = RMul(n, <<21, 5>>)
                         /\ RSub(g.max_v, g.min_v) = RMul(n, <<6, 5>>)
                         /\ RLt(Zero, g.min_v) /\ RLt(g.min_v, g.max_v)
                /\ Calculated =>
                     /\ breakdown_series_cells_label = Num(n)
                     /\ Shows(min_voltage_info_label, RMul(n, R(3)))
                     /\ Shows(max_voltage_info_label, RMul(n, <<21, 5>>))

C3_Reached ==
    /\ last_op = "calculate_all"
    /\ voltage_entry = Num(<<95, 2>>)
    /\ breakdown_series_cells_label = Num(R(13))
    /\ min_voltage_info_label = Num(R(39))
    /\ max_voltage_info_label = Num(<<273, 5>>)

(* C4: a nominal voltage above zero that rounds to no table key takes the  *)
(* cell count n > 0 of the manual field: the results show n cells, the     *)
(* empty voltage is n * 3.0, the full voltage n * 4.2, and the current     *)
(* state is computed                                                       *)
C4_ManualCellCount ==
    (/\ Calculated
     /\ Positive(voltage_entry) /\ ~StandardVoltage(voltage_entry)
     /\ IntOk(series_cells_entry) /\ RLt(Zero, series_cells_entry.v))
    => LET n == series_cells_entry.v
           g == get_derived_voltage_range_and_s(Self).ret
       IN  /\ g.ok /\ R(g.series_cells) = n
           /\ g.min_v = RMul(n, R(3)) /\ g.max_v = RMul(n, <<21, 5>>)
           /\ breakdown_series_cells_label = Num(n)
           /\ percent_radio => current_state_percent_result_label.k = "num"

-----------------------------------------------------------------------------
(* Charge: state of charge, charger rate, capacity type *)

PercentTexts == PercentGrid \cup {BadText}
CurrentVoltageTexts == {Num(R(42)), Num(<<252, 5>>), Num(R(60))}
ChargeRateTexts == {Num(R(2)), Num(Zero), Num(R(-1)), EmptyText}

InitCharge == InitWith(Pack52)
NextCharge ==
    \/ \E t \in PercentTexts : edit_current_percentage(t)
    \/ \E t \in CurrentVoltageTexts : edit_current_voltage(t)
    \/ \E b \in BOOLEAN : toggle_charge_input(b)
    \/ \E t \in ChargeRateTexts : edit_charge_rate(t)
    \/ \E c \in {"Wh", "Ah"} : select_capacity_type(c)
    \/ click_calculate
SpecCharge == InitCharge /\ [][NextCharge]_vars

C9_TimeToFull ==
    Calculated =>
        /\ (PackValid /\ StateResolves /\ Positive(charge_rate_entry))
              => ShowsMinutes(charge_time_label,
                     RDiv(RMul(AmpHours, RSub(R(1), RDiv(StatePercent, R(100)))),
                          charge_rate_entry.v))
        /\ ~Positive(charge_rate_entry) => charge_time_label = EmptyText
        /\ charge_time_label.k = "time" => RLe(Zero, charge_time_label.v)

C9_Reached ==
    /\ last_op = "calculate_all"
    /\ capacity_type_combo = "Ah" /\ percent_radio
    /\ current_percentage_entry = Num(R(25))
    /\ charge_rate_entry = Num(R(2))
    /\ charge_time_label = TimeText(450)

-----------------------------------------------------------------------------
(* Charge for a duration *)

HalfPercentTexts == {t \in PercentGrid : RLe(t.v, R(100)) /\ t.v[1] % 50 = 0}
DurationRateTexts == {Num(R(2)), Num(R(5))}

InitAfterCharge == InitWith(Pack52)
NextAfterCharge ==
    \/ \E t \in HalfPercentTexts : edit_current_percentage(t)
    \/ \E t \in DurationItems : select_charging_duration(t)
    \/ \E t \in DurationRateTexts : edit_charge_rate(t)
    \/ \E c \in {"Wh", "Ah"} : select_capacity_type(c)
    \/ click_calculate
SpecAfterCharge == InitAfterCharge /\ [][NextAfterCharge]_vars

(* C10: the percentage after charging h hours from p is                    *)
(* min(100, p + chargeRateA * h / totalCapacityAh * 100): never above 100, *)
(* never below p, and not decreasing as h grows                            *)
C10_PercentageAfterCharge ==
    (PackValid /\ StateResolves /\ Positive(charge_rate_entry))
    => LET After(h) == PercentageAfterCharge(AmpHours, StatePercent,
                                             charge_rate_entry.v, h)
           Claimed(h) ==
               LET raw == RAdd(StatePercent,
                               RMul(RDiv(RMul(charge_rate_entry.v, h), AmpHours), R(100)))
               IN  IF RLt(R(100), raw) THEN R(100) ELSE raw
           Hours == {t.v : t \in DurationItems \ {EmptyText}}
       IN  /\ \A h \in Hours :
                /\ After(h) = Claimed(h)
                /\ RLe(After(h), R(100)) /\ RLe(StatePercent, After(h))
                /\ \A later \in Hours : RLe(h, later) => RLe(After(h), After(later))
           /\ (Calculated /\ FloatOk(charging_duration_combo))
                => /\ Shows(percentage_after_charge_label,
                            Claimed(charging_duration_combo.v))
                   /\ RLe(percentage_after_charge_label.v, R(100))
                   /\ RLe(StatePercent, percentage_after_charge_label.v)

C10_Reached ==
    /\ last_op = "calculate_all"
    /\ capacity_type_combo = "Ah" /\ charge_rate_entry = Num(R(2))
    /\ current_percentage_entry = Num(R(50))
    /\ charging_duration_combo = Num(R(1))
    /\ percentage_after_charge_label = Num(R(60))

-----------------------------------------------------------------------------
(* Cutoff: state of charge against the preferred cutoff *)

CutoffTexts == PercentGrid \cup {EmptyText}
CutoffRateTexts == {Num(R(2)), EmptyText, BadText}
CutoffLogs == {<<>>, <<Ride(R(300), R(4))>>, <<Ride(R(300), R(1))>>}

InitCutoff == \E log \in CutoffLogs : InitWith(WithLog(Pack52, log))
NextCutoff ==
    \/ \E t \in PercentGrid : edit_current_percentage(t)
    \/ \E t \in CutoffTexts : edit_preferred_cutoff(t)
    \/ \E t \in CutoffRateTexts : edit_charge_rate(t)
    \/ click_calculate
    \/ click_apply_logged_efficiency
SpecCutoff == InitCutoff /\ [][NextCutoff]_vars

(* C7: with a current percentage at or below the cutoff percentage the     *)
(* range to cutoff is the text "N/A (At/Below Cutoff)", not a number and   *)
(* not an error text                                                       *)
C7_AtOrBelowCutoff ==
    (/\ Calculated /\ CutoffValid /\ StateResolves
     /\ RLe(StatePercent, CutoffPercent))
    => range_to_cutoff_label = Text("N/A (At/Below Cutoff)")

(* C8: with a current percentage p above the cutoff percentage c the range *)
(* to cutoff is fullRange * (p - c) / 100, the full range's Wh/mile being  *)
(* the one used                                                            *)
C8_RangeToCutoff ==
    (/\ Calculated /\ CutoffValid /\ StateResolves
     /\ RLt(Zero, full_charge_range)
     /\ RLt(CutoffPercent, StatePercent))
    => Shows(range_to_cutoff_label,
             RDiv(RMul(full_charge_range, RSub(StatePercent, CutoffPercent)), R(100)))

-----------------------------------------------------------------------------
(* Ride log: imports, deletions, the average and the efficiency toggle *)

ImportedRides == {Ride(R(100), R(10)), Ride(R(60), R(20)), Ride(Zero, R(10)),
                  Ride(R(100), Zero), Ride(R(-100), R(5)),
                  [Ride(R(100), R(10)) EXCEPT !.wh_consumed = BadText],
                  [Ride(R(100), R(10)) EXCEPT !.distance_miles = BadText],
                  [Ride(R(100), R(10)) EXCEPT !.wh_consumed = NumStr(R(100)),
                                              !.distance_miles = NumStr(R(10))]}
ImportFiles == {ListFile(<<ride>>) : ride \in ImportedRides}
RideLogs == {<<>>, <<Ride(R(100), R(10)), Ride(R(100), R(10))>>}

InitRideLog == \E log \in RideLogs : InitWith(WithLog(Pack52, log))
NextRideLog ==
    \/ \E imported_file \in ImportFiles : click_import_ride_log(imported_file)
    \/ \E selected_rows \in SUBSET (1..MaxLogLen) : click_delete_selected_rides(selected_rows)
    \/ click_apply_logged_efficiency
    \/ click_reset_efficiency
    \/ click_load_profile
SpecRideLog == InitRideLog /\ [][NextRideLog]_vars

(* the rides of the current profile, and the totals of those whose two     *)
(* values are both numbers or numerals                                     *)
CurrentLog == all_profiles[current_profile_name].ride_log
WellFormed(ride) ==
    ride.wh_consumed.k \in {"num", "str"} /\ ride.distance_miles.k \in {"num", "str"}
RECURSIVE WhUpTo(_, _)
WhUpTo(log, n) ==
    IF n = 0 THEN Zero
    ELSE RAdd(WhUpTo(log, n - 1),
              IF WellFormed(log[n]) THEN log[n].wh_consumed.v ELSE Zero)
RECURSIVE MilesUpTo(_, _)
MilesUpTo(log, n) ==
    IF n = 0 THEN Zero
    ELSE RAdd(MilesUpTo(log, n - 1),
              IF WellFormed(log[n]) THEN log[n].distance_miles.v ELSE Zero)
TotalWh == WhUpTo(CurrentLog, Len(CurrentLog))
TotalMiles == MilesUpTo(CurrentLog, Len(CurrentLog))
NoAverageText == Text("N/A (No rides logged or invalid data)")

C12_AggregatorTotal ==
    LET after == calculate_average_efficiency(Self)
    IN  /\ after.raised = "none"
        /\ \/ after.logged_wh_per_mile_average = Zero
              /\ after.average_wh_per_mile_label = NoAverageText
           \/ RLt(Zero, TotalMiles)
              /\ after.logged_wh_per_mile_average = RDiv(TotalWh, TotalMiles)

-----------------------------------------------------------------------------
(* Current state: both input modes over packs in and outside the table *)

StatePackTexts == {Num(R(36)), Num(R(52)), Num(R(50))}
StatePercentTexts == PercentGrid \cup {Num(R(-1)), Num(<<100, 3>>), BadText}
StateVoltageTexts == {Num(R(30)), Num(R(42)), Num(<<252, 5>>), Num(<<294, 5>>),
                      Num(R(60)), BadText}

InitState == InitWith(Pack52)
NextState ==
    \/ \E t \in StatePackTexts : edit_voltage(t)
    \/ \E t \in StatePercentTexts : edit_current_percentage(t)
    \/ \E t \in StateVoltageTexts : edit_current_voltage(t)
    \/ \E b \in BOOLEAN : toggle_charge_input(b)
    \/ click_calculate
SpecState == InitState /\ [][NextState]_vars

(* the empty and the full voltage of the pack in the nominal-voltage field *)
EmptyVoltage == RMul(R(CellsOf(voltage_entry)), R(3))
FullVoltage == RMul(R(CellsOf(voltage_entry)), <<21, 5>>)
(* the percentage the linear map gives a voltage *)
LinearPercent(v) ==
    RDiv(RMul(RSub(v, EmptyVoltage), R(100)), RSub(FullVoltage, EmptyVoltage))
(* the state returned with the given text in the percentage field *)
StateOfPercent(t) ==
    get_current_battery_percentage(
        [Self EXCEPT !.percent_radio = TRUE, !.current_percentage_entry = t]).ret
(* the state returned with the given text in the voltage field *)
StateOfVoltage(t) ==
    get_current_battery_percentage(
        [Self EXCEPT !.percent_radio = FALSE, !.current_voltage_entry = t]).ret

(* C13: with the geometry resolved, the voltage that percentage mode       *)
(* returns for a percentage p of [0, 100], entered in voltage mode, gives  *)
(* the percentage p back                                                   *)
C13_RoundTrip ==
    StandardVoltage(voltage_entry) =>
        \A t \in StatePercentTexts \cup {current_percentage_entry} :
            (FloatOk(t) /\ InPercentRange(t.v)) =>
                LET there == StateOfPercent(t)
                    back == StateOfVoltage(Num(there.voltage))
                IN  /\ there.ok /\ back.ok
                    /\ back.percent = t.v
                    /\ back.voltage = there.voltage

C13_Reached ==
    /\ last_op = "calculate_all" /\ percent_radio
    /\ voltage_entry = Num(R(36))
    /\ current_percentage_entry = Num(<<100, 3>>)
    /\ current_state_percent_result_label = Num(<<3333, 100>>)
    /\ current_state_voltage_result_label = Num(R(34))
    /\ StateOfVoltage(Num(R(34))).percent = <<100, 3>>

(* the voltage the linear map gives a percentage *)
LinearVoltage(p) ==
    RAdd(EmptyVoltage, RDiv(RMul(p, RSub(FullVoltage, EmptyVoltage)), R(100)))

(* C14: in percentage mode with the geometry resolved, a text that is no   *)
(* number or a number outside [0, 100] returns neither percentage nor      *)
(* voltage, and a number p of [0, 100] returns p with the voltage          *)
(* empty + (p / 100) * (full - empty)                                      *)
C14_PercentageMode ==
    StandardVoltage(voltage_entry) =>
        /\ \A t \in StatePercentTexts \cup {EmptyText, current_percentage_entry} :
             LET st == StateOfPercent(t)
             IN  IF FloatOk(t) /\ InPercentRange(t.v)
                 THEN st.ok /\ st.percent = t.v /\ st.voltage = LinearVoltage(t.v)
                 ELSE st = NoState
        /\ (last_op = "calculate_all" /\ percent_radio) =>
             IF FloatOk(current_percentage_entry)
                /\ InPercentRange(current_percentage_entry.v)
             THEN /\ Shows(current_state_percent_result_label, current_percentage_entry.v)
                  /\ Shows(current_state_voltage_result_label,
                           LinearVoltage(current_percentage_entry.v))
             ELSE /\ current_state_percent_result_label = Text("N/A")
                  /\ current_state_voltage_result_label = Text("N/A")

C14_Reached ==
    /\ last_op = "calculate_all" /\ percent_radio
    /\ voltage_entry = Num(R(52))
    /\ current_percentage_entry = Num(R(125))
    /\ current_state_percent_result_label = Text("N/A")
    /\ StateOfPercent(Num(R(75))).voltage = <<273, 5>>

(* a percentage brought into [0, 100] *)
Clamped(x) == IF RLt(x, Zero) THEN Zero ELSE IF RLt(R(100), x) THEN R(100) ELSE x

(* C15: in voltage mode with the geometry resolved, every number v returns *)
(* a percentage and a voltage, the percentage being                        *)
(* (v - empty) / (full - empty) * 100 brought into [0, 100]: 0 for every   *)
(* v at or below the empty voltage, 100 for every v at or above the full   *)
C15_VoltageMode ==
    StandardVoltage(voltage_entry) =>
        /\ \A t \in StateVoltageTexts \cup {current_voltage_entry} :
             FloatOk(t) =>
                 LET st == StateOfVoltage(t)
                 IN  /\ st.ok
                     /\ st.percent = Clamped(LinearPercent(t.v))
                     /\ InPercentRange(st.percent)
                     /\ RLe(t.v, EmptyVoltage) => st.percent = Zero
                     /\ RLe(FullVoltage, t.v) => st.percent = R(100)
        /\ (last_op = "calculate_all" /\ ~percent_radio /\ FloatOk(current_voltage_entry)) =>
             /\ Shows(current_state_percent_result_label,
                      Clamped(LinearPercent(current_voltage_entry.v)))
             /\ current_state_voltage_result_label.k = "num"

C15_Reached ==
    /\ last_op = "calculate_all" /\ ~percent_radio
    /\ voltage_entry = Num(R(52))
    /\ current_voltage_entry = Num(R(30))
    /\ current_state_percent_result_label = Num(Zero)
    /\ StateOfVoltage(Num(<<252, 5>>)).percent = R(50)
    /\ StateOfVoltage(Num(R(60))).percent = R(100)

(* the texts the two fields of the current state are tried with *)
StateTexts(percent_mode) ==
    IF percent_mode THEN StatePercentTexts \cup {current_percentage_entry}
    ELSE StateVoltageTexts \cup {current_voltage_entry}
StateOf(percent_mode, t) == IF percent_mode THEN StateOfPercent(t) ELSE StateOfVoltage(t)

(* C16 as stated: every state get_current_battery_percentage returns, in   *)
(* either mode, has its percentage in [0, 100], its voltage in             *)
(* [empty, full], and percentage = (voltage - empty) / (full - empty) * 100 *)
C16_StateConsistency_AsStated ==
    StandardVoltage(voltage_entry) =>
        \A percent_mode \in BOOLEAN : \A t \in StateTexts(percent_mode) :
            LET st == StateOf(percent_mode, t)
            IN  st.ok =>
                    /\ InPercentRange(st.percent)
                    /\ RLe(EmptyVoltage, st.voltage) /\ RLe(st.voltage, FullVoltage)
                    /\ st.percent = LinearPercent(st.voltage)

(* C16: every returned state has its percentage in [0, 100]; in percentage *)
(* mode the voltage lies in [empty, full] and the linear map gives the     *)
(* percentage exactly; in voltage mode the voltage is the one entered,     *)
(* inside [empty, full] or not, and the percentage is the linear map's     *)
(* value brought into [0, 100]; the results show the returned pair         *)
C16_StateConsistency ==
    StandardVoltage(voltage_entry) =>
        /\ \A percent_mode \in BOOLEAN : \A t \in StateTexts(percent_mode) :
             LET st == StateOf(percent_mode, t)
             IN  st.ok =>
                     /\ InPercentRange(st.percent)
                     /\ st.percent = Clamped(LinearPercent(st.voltage))
                     /\ percent_mode =>
                            /\ RLe(EmptyVoltage, st.voltage) /\ RLe(st.voltage, FullVoltage)
                            /\ st.percent = LinearPercent(st.voltage)
                     /\ ~percent_mode => st.voltage = t.v
                     /\ (RLe(EmptyVoltage, st.voltage) /\ RLe(st.voltage, FullVoltage))
                            => st.percent = LinearPercent(st.voltage)
        /\ last_op = "calculate_all" =>
             LET st == get_current_battery_percentage(Self).ret
             IN  IF st.ok
                 THEN /\ Shows(current_state_percent_result_label, st.percent)
                      /\ Shows(current_state_voltage_result_label, st.voltage)
                 ELSE /\ current_state_percent_result_label = Text("N/A")
                      /\ current_state_voltage_result_label = Text("N/A")

C16_Reached ==
    /\ last_op = "calculate_all" /\ ~percent_radio
    /\ voltage_entry = Num(R(52))
    /\ current_voltage_entry = Num(R(60))
    /\ current_state_percent_result_label = Num(R(100))
    /\ current_state_voltage_result_label = Num(R(60))

-----------------------------------------------------------------------------
(* Resolution: nominal voltages the table does not hold, manual counts,    *)
(* with a charging duration selected                                       *)

ResolutionPackTexts == {Num(R(52)), Num(R(50)), Num(Zero), Num(R(-52)), EmptyText, BadText}
ResolutionSeriesTexts == {Num(R(12)), Num(Zero), Num(R(-3)), EmptyText, BadText}

InitResolution == InitWith([Pack52 EXCEPT !.charging_duration_hours = Num(R(1))])
NextResolution ==
    \/ \E t \in ResolutionPackTexts : edit_voltage(t)
    \/ \E t \in ResolutionSeriesTexts : edit_series_cells(t)
    \/ \E b \in BOOLEAN : toggle_charge_input(b)
    \/ \E t \in {EmptyText, Num(R(1))} : select_charging_duration(t)
    \/ click_calculate
SpecResolution == InitResolution /\ [][NextResolution]_vars

(* a label that shows no value *)
Unavailable(label) == label.k \notin {"num", "time"}
(* the results that need the geometry all show no value *)
DependentsUnavailable ==
    /\ breakdown_series_cells_label = Text("N/A")
    /\ Unavailable(current_state_percent_result_label)
    /\ Unavailable(current_state_voltage_result_label)
    /\ Unavailable(charge_time_label)
    /\ Unavailable(remaining_charge_percentage_label)
    /\ Unavailable(remaining_range_label)
    /\ Unavailable(range_to_cutoff_label)
    /\ Unavailable(charge_time_from_cutoff_label)
    /\ Unavailable(percentage_after_charge_label)
(* the manual field holds a cell count above zero *)
ManualCount == IntOk(series_cells_entry) /\ RLt(Zero, series_cells_entry.v)

(* C17: a nominal voltage that rounds to no key of the table, with a       *)
(* manual field that is empty, no number, zero or negative, resolves to no *)
(* cell count and no bounds; the current state, the charge time, the       *)
(* remaining range, the cutoff metrics and the percentage after charge     *)
(* then show no value                                                      *)
C17_MissingCellCount ==
    (FloatOk(voltage_entry) /\ ~StandardVoltage(voltage_entry) /\ ~ManualCount) =>
        /\ ~get_derived_voltage_range_and_s(Self).ret.ok
        /\ ~EXPERIMENTAL_get_derived_voltage_range_and_s(Self).ok
        /\ ~get_current_battery_percentage(Self).ret.ok
        /\ last_op = "calculate_all" => DependentsUnavailable

C17_Reached ==
    /\ last_op = "calculate_all"
    /\ voltage_entry = Num(R(50)) /\ series_cells_entry = Num(Zero)
    /\ charging_duration_combo = Num(R(1))
    /\ DependentsUnavailable
    /\ calculated_range_label.k = "num"

(* C18: a nominal voltage of zero or below resolves to no cell count, no   *)
(* bounds and no current state, whatever the manual field holds, in        *)
(* batteryutils.py and in batteryutils_EXPERIMENTAL.py                     *)
C18_InvalidNominalVoltage ==
    (FloatOk(voltage_entry) /\ RLe(voltage_entry.v, Zero)) =>
        /\ \A t \in ResolutionSeriesTexts \cup {series_cells_entry} :
             LET manual == [Self EXCEPT !.series_cells_entry = t]
             IN  /\ ~get_derived_voltage_range_and_s(manual).ret.ok
                 /\ ~get_current_battery_percentage(manual).ret.ok
                 /\ ~EXPERIMENTAL_get_derived_voltage_range_and_s(manual).ok
        /\ last_op = "calculate_all" =>
             /\ breakdown_series_cells_label = Text("N/A")
             /\ Unavailable(min_voltage_info_label)
             /\ Unavailable(max_voltage_info_label)
             /\ current_state_percent_result_label = Text("N/A")
             /\ current_state_voltage_result_label = Text("N/A")

-----------------------------------------------------------------------------
(* The efficiency toggle over the ride log (SpecRideLog) *)

(* the ride log of the current profile has a positive average *)
PositiveAverage == RLt(Zero, TotalMiles) /\ RLt(Zero, TotalWh)

(* C19: in any order and any number of times, reset_efficiency_source      *)
(* leaves the toggle at Predicted, and                                     *)
(* apply_logged_efficiency_to_calculator leaves it at Logged whenever the  *)
(* ride log of the current profile has a positive average                  *)
C19_ToggleUnconstrained ==
    /\ last_op = "reset_efficiency_source" => ~use_logged_efficiency
    /\ (last_op = "apply_logged_efficiency_to_calculator" /\ PositiveAverage)
           => use_logged_efficiency
    /\ ~reset_efficiency_source(Self).use_logged_efficiency
    /\ PositiveAverage => apply_logged_efficiency_to_calculator(Self).use_logged_efficiency

-----------------------------------------------------------------------------
(* Inputs and outputs of the calculation (SpecResolution) *)

(* what the user supplies to the calculation *)
Inputs(s) ==
    <<s.voltage_entry, s.series_cells_entry, s.capacity_entry, s.capacity_type_combo,
      s.charge_rate_entry, s.percent_radio, s.current_percentage_entry,
      s.current_voltage_entry, s.wheel_diameter_entry, s.driving_style_combo,
      s.preferred_cutoff_entry, s.charging_duration_combo, s.use_logged_efficiency>>

(* C20: calculate_all and the geometry and state helpers change none of    *)
(* the inputs, the manual series-cell count included, also when they run   *)
(* as the slot of an edit of the nominal voltage; calculate_all run twice  *)
(* gives what it gives run once; the geometry is the same for the same     *)
(* nominal voltage and manual count whatever was calculated before         *)
C20_SideEffectFree ==
    /\ Inputs(calculate_all(Self)) = Inputs(Self)
    /\ Inputs(get_derived_voltage_range_and_s(Self).self) = Inputs(Self)
    /\ Inputs(get_current_battery_percentage(Self).self) = Inputs(Self)
    /\ calculate_all(calculate_all(Self)) = calculate_all(Self)
    /\ get_derived_voltage_range_and_s(calculate_all(Self)).ret
           = get_derived_voltage_range_and_s(Self).ret
    /\ \A t \in ResolutionPackTexts :
          LET away == update_voltage_info_labels([Self EXCEPT !.voltage_entry = t])
              back == update_voltage_info_labels([away EXCEPT !.voltage_entry = voltage_entry])
          IN  /\ away.series_cells_entry = series_cells_entry
              /\ get_derived_voltage_range_and_s(back).ret
                     = get_derived_voltage_range_and_s(Self).ret
              /\ EXPERIMENTAL_get_derived_voltage_range_and_s(back)
                     = EXPERIMENTAL_get_derived_voltage_range_and_s(Self)

-----------------------------------------------------------------------------
(* Order relations of the range (SpecRange) *)

(* the Wh/mile and the energy the inputs of an object stand for *)
WhPerMileOf(s) ==
    IF s.use_logged_efficiency /\ RLt(Zero, s.logged_wh_per_mile_average)
    THEN s.logged_wh_per_mile_average
    ELSE ReferenceWhPerMile(s.driving_style_combo, s.wheel_diameter_entry.v)
EnergyOf(s) ==
    IF s.capacity_type_combo = "Ah" THEN RMul(s.capacity_entry.v, s.voltage_entry.v)
    ELSE s.capacity_entry.v
(* the full range calculate_range computes for an object *)
RangeOf(s) == calculate_range(s).full_charge_range

(* the object with other efficiency inputs, and with other energy inputs *)
EfficiencyVariants ==
    {[Self EXCEPT !.wheel_diameter_entry = w, !.driving_style_combo = d,
                  !.use_logged_efficiency = u, !.logged_wh_per_mile_average = a] :
        w \in {t \in WheelTexts : Positive(t)}, d \in Styles, u \in BOOLEAN,
        a \in {Zero, R(10), R(75)}}
EnergyVariants ==
    {[Self EXCEPT !.capacity_entry = c, !.capacity_type_combo = ct, !.voltage_entry = v] :
        c \in {Num(R(10)), Num(R(20)), Num(<<41, 2>>)}, ct \in {"Wh", "Ah"},
        v \in {Num(R(36)), Num(R(52))}}

(* C21: with all inputs above zero, the full range of calculate_range is   *)
(* strictly smaller for a larger Wh/mile at the same energy, and strictly  *)
(* larger for a larger energy at the same Wh/mile                          *)
C21_RangeMonotone ==
    RangeInputsValid =>
        /\ RLt(Zero, RangeOf(Self))
        /\ \A other \in EfficiencyVariants :
             /\ RLt(WhPerMileOf(Self), WhPerMileOf(other)) => RLt(RangeOf(other), RangeOf(Self))
             /\ RLt(WhPerMileOf(other), WhPerMileOf(Self)) => RLt(RangeOf(Self), RangeOf(other))
             /\ WhPerMileOf(other) = WhPerMileOf(Self) => RangeOf(other) = RangeOf(Self)
        /\ \A other \in EnergyVariants :
             /\ RLt(EnergyOf(Self), EnergyOf(other)) => RLt(RangeOf(Self), RangeOf(other))
             /\ RLt(EnergyOf(other), EnergyOf(Self)) => RLt(RangeOf(other), RangeOf(Self))
        /\ Calculated => full_charge_range = RangeOf(Self)

C21_Reached ==
    /\ last_op = "calculate_all" /\ RangeInputsValid
    /\ driving_style_combo = "Agressive" /\ wheel_diameter_entry = Num(<<55, 2>>)
    /\ capacity_type_combo = "Ah" /\ ~use_logged_efficiency
    /\ full_charge_range = R(13)
    /\ RangeOf([Self EXCEPT !.driving_style_combo = "Eco"]) = R(25)
    /\ RangeOf([Self EXCEPT !.capacity_entry = Num(R(10))]) = <<13, 2>>

(* the wheel diameters above zero that the range is tried with *)
PositiveWheels == {t.v : t \in {w \in WheelTexts \cup {Num(R(12)), Num(<<25, 2>>)} : Positive(w)}}

(* C30 as stated: for every wheel diameter above zero the predicted        *)
(* Wh/mile of Eco                                                          *)
(* is at most that of Casual and that of Casual at most that of            *)
(* Agressive, so the predicted ranges of a pack are ordered the other way; *)
(* the predicted Wh/mile of a style lies between its small-wheel and its   *)
(* large-wheel reference, is above zero and does not fall as the diameter  *)
(* grows                                                                   *)
C30_StyleOrdering_AsStated ==
    /\ \A d \in PositiveWheels :
         /\ RLe(PredictedWhPerMile("Eco", d), PredictedWhPerMile("Casual", d))
         /\ RLe(PredictedWhPerMile("Casual", d), PredictedWhPerMile("Agressive", d))
         /\ \A style \in Styles :
              /\ RLe(SMALL_WHEEL_EFFICIENCY[style], PredictedWhPerMile(style, d))
              /\ RLe(PredictedWhPerMile(style, d), LARGE_WHEEL_EFFICIENCY[style])
              /\ RLt(Zero, PredictedWhPerMile(style, d))
              /\ \A e \in PositiveWheels :
                   RLe(d, e) => RLe(PredictedWhPerMile(style, d), PredictedWhPerMile(style, e))
    /\ (RangeInputsValid /\ ~use_logged_efficiency) =>
         /\ RLe(RangeOf([Self EXCEPT !.driving_style_combo = "Casual"]),
                RangeOf([Self EXCEPT !.driving_style_combo = "Eco"]))
         /\ RLe(RangeOf([Self EXCEPT !.driving_style_combo = "Agressive"]),
                RangeOf([Self EXCEPT !.driving_style_combo = "Casual"]))

(* the diameter at which the predictions of Eco and Casual meet:           *)
(* 33.28 + 8.32 t = 30 + 35 t at t = 82 / 667, d = 10 + 17.5 t             *)
EcoCasualCrossing == <<8105, 667>>

(* C30: the predicted Wh/mile of Casual is at most that of Agressive for   *)
(* every wheel diameter above zero; that of Eco is at most that of Casual  *)
(* from 8105/667 in (about 12.15 in) upwards and above it for every        *)
(* smaller diameter, where the predicted range of Eco is the shorter one;  *)
(* the predicted Wh/mile of a style lies between its small-wheel and its   *)
(* large-wheel reference, is above zero and does not fall as the diameter  *)
(* grows                                                                   *)
C30_StyleOrdering ==
    /\ \A d \in PositiveWheels :
         /\ RLe(EcoCasualCrossing, d)
               => RLe(PredictedWhPerMile("Eco", d), PredictedWhPerMile("Casual", d))
         /\ RLt(d, EcoCasualCrossing)
               => RLt(PredictedWhPerMile("Casual", d), PredictedWhPerMile("Eco", d))
         /\ RLe(PredictedWhPerMile("Casual", d), PredictedWhPerMile("Agressive", d))
         /\ \A style \in Styles :
              /\ RLe(SMALL_WHEEL_EFFICIENCY[style], PredictedWhPerMile(style, d))
              /\ RLe(PredictedWhPerMile(style, d), LARGE_WHEEL_EFFICIENCY[style])
              /\ RLt(Zero, PredictedWhPerMile(style, d))
              /\ \A e \in PositiveWheels :
                   RLe(d, e) => RLe(PredictedWhPerMile(style, d), PredictedWhPerMile(style, e))
    /\ (RangeInputsValid /\ ~use_logged_efficiency) =>
         /\ RLe(RangeOf([Self EXCEPT !.driving_style_combo = "Agressive"]),
                RangeOf([Self EXCEPT !.driving_style_combo = "Casual"]))
         /\ RLe(EcoCasualCrossing, wheel_diameter_entry.v)
               => RLe(RangeOf([Self EXCEPT !.driving_style_combo = "Casual"]),
                      RangeOf([Self EXCEPT !.driving_style_combo = "Eco"]))
         /\ RLt(wheel_diameter_entry.v, EcoCasualCrossing)
               => RLt(RangeOf([Self EXCEPT !.driving_style_combo = "Eco"]),
                      RangeOf([Self EXCEPT !.driving_style_combo = "Casual"]))

C30_Reached ==
    /\ last_op = "calculate_all" /\ RangeInputsValid /\ ~use_logged_efficiency
    /\ capacity_type_combo = "Ah"
    /\ driving_style_combo = "Eco" /\ wheel_diameter_entry = Num(R(10))
    /\ calculated_range_label = Num(<<125, 4>>)
    /\ Fmt2(RangeOf([Self EXCEPT !.driving_style_combo = "Casual"])) = <<3467, 100>>


-----------------------------------------------------------------------------
(* Ride records: rides logged, imported and deleted in one profile *)

LogDistanceTexts == {Num(R(10)), Num(Zero), BadText}
LogStateTypes == {"percentage", "voltage"}
(* 100, 50, 50.004 and 150 as percentages; 50 is a voltage of the 52 V     *)
(* pack (42 V to 58.8 V) too                                               *)
LogValueTexts == {Num(R(100)), Num(R(50)), Num(<<12501, 250>>), Num(R(150)), BadText}
LogCapacityTexts == {Num(R(20)), EmptyText}
(* an entry without the keys start_percent, end_percent, wh_consumed and   *)
(* wh_per_mile                                                             *)
DistanceOnly(dist) == [distance_miles |-> Num(dist), start_percent |-> Absent,
                       end_percent |-> Absent, wh_consumed |-> Absent,
                       wh_per_mile |-> Absent]
(* the entry {} *)
NoKeys == [distance_miles |-> Absent, start_percent |-> Absent,
           end_percent |-> Absent, wh_consumed |-> Absent, wh_per_mile |-> Absent]
LogFiles == {ListFile(<<Ride(R(260), R(10))>>),
             ListFile(<<DistanceOnly(R(10))>>), ListFile(<<NoKeys>>),
             ListFile(<<[Ride(R(260), R(10)) EXCEPT !.wh_consumed = NumStr(R(260))]>>),
             ListFile(<<Ride(R(260), R(10)), Ride(R(520), R(10))>>),
             ListFile(<<>>), ListFile(<<NotADict>>),
             OtherFile("object"), OtherFile("invalid"), OtherFile("missing")}

InitLog == InitWith(Pack52)
NextLog ==
    \/ \E ride_distance \in LogDistanceTexts, start_state_type \in LogStateTypes,
          ride_start_value \in LogValueTexts, end_state_type \in LogStateTypes,
          ride_end_value \in LogValueTexts :
            click_log_ride(ride_distance, start_state_type, ride_start_value,
                           end_state_type, ride_end_value)
    \/ \E imported_file \in LogFiles : click_import_ride_log(imported_file)
    \/ \E selected_rows \in SUBSET (1..MaxLogLen) : click_delete_selected_rides(selected_rows)
    \/ \E t \in LogCapacityTexts : edit_capacity(t)
SpecLog == InitLog /\ [][NextLog]_vars

(* a stored record that is a ride: distance > 0, start > end, energy > 0,  *)
(* and Wh/mile the energy over the distance, to the two decimals stored    *)
IsRideRecord(ride) ==
    /\ ride.distance_miles.k = "num" /\ RLt(Zero, ride.distance_miles.v)
    /\ ride.start_percent.k = "num" /\ ride.end_percent.k = "num"
    /\ RLt(ride.end_percent.v, ride.start_percent.v)
    /\ ride.wh_consumed.k = "num" /\ RLt(Zero, ride.wh_consumed.v)
    /\ ride.wh_per_mile.k = "num"
    /\ Within(ride.wh_per_mile.v, RDiv(ride.wh_consumed.v, ride.distance_miles.v), <<1, 100>>)

(* C22: after any sequence of log_ride, delete_selected_rides and          *)
(* import_ride_log_from_file every record of the ride log has              *)
(* distanceMiles > 0, startPercent > endPercent, whConsumed > 0 and        *)
(* whPerMile = whConsumed / distanceMiles                                  *)
C22_RideRecordInvariant ==
    \A i \in 1..Len(CurrentLog) : IsRideRecord(CurrentLog[i])

(* the inputs of a "Log Ride" click the model tries *)
LogRideInputs ==
    LogDistanceTexts \X LogStateTypes \X LogValueTexts \X LogStateTypes \X LogValueTexts

(* the percentage a battery state of the Ride Log tab stands for *)
PercentOfState(state_type, t) ==
    IF state_type = "percentage" THEN t.v ELSE LinearPercent(t.v)
StateInRange(state_type, t) ==
    /\ FloatOk(t)
    /\ IF state_type = "percentage" THEN InPercentRange(t.v)
       ELSE RLe(EmptyVoltage, t.v) /\ RLe(t.v, FullVoltage)
(* a ride log_ride has to accept: a distance above zero, both states in    *)
(* range, the end below the start, and the battery known                   *)
AcceptableRide(in) ==
    /\ Positive(in[1])
    /\ PackValid /\ StandardVoltage(voltage_entry)
    /\ StateInRange(in[2], in[3]) /\ StateInRange(in[4], in[5])
    /\ RLt(PercentOfState(in[4], in[5]), PercentOfState(in[2], in[3]))

(* the rides of a log outside the selected rows, in the order of the log *)
KeptRides(log, rows) ==
    LET kept == (1..Len(log)) \ rows
        Nth(j) == CHOOSE i \in kept : Cardinality({k \in kept : k <= i}) = j
    IN  [j \in 1..Cardinality(kept) |-> log[Nth(j)]]

(* what is stored: the profiles, the last ride, the settings file and the  *)
(* logged average                                                          *)
Stored(s) == <<s.all_profiles, s.last_ride_data, s.settings_file,
               s.logged_wh_per_mile_average>>

ReportsImportError(imported_file, after) ==
    imported_file.json # "list" \/ after.raised # "none"

(* C29: whenever import_ride_log_from_file ends reporting an import error  *)
(* the ride log in memory, last_ride_data and the stored logged average    *)
(* are the same as before; only a successful import extends the log, by    *)
(* the imported records after the existing ones, in file order             *)
C29_FailedImportUnchanged ==
    \A imported_file \in LogFiles :
        LET after == import_ride_log_from_file(Self, imported_file)
            log == after.all_profiles[current_profile_name].ride_log
        IN  IF ReportsImportError(imported_file, after)
            THEN /\ log = CurrentLog
                 /\ after.last_ride_data = last_ride_data
                 /\ after.logged_wh_per_mile_average = logged_wh_per_mile_average
            ELSE /\ Len(log) = Len(CurrentLog) + Len(imported_file.entries)
                 /\ SubSeq(log, 1, Len(CurrentLog)) = CurrentLog


-----------------------------------------------------------------------------
(* Two profiles with their ride logs: the last-ride cache, what a save     *)
(* replaces, and the logged average of the current profile                 *)

(* the profile "Commuter" has logged a ride, the profile "Cargo" none *)
CacheProfiles ==
    [n \in {"Commuter", "Cargo"} |->
        IF n = "Commuter" THEN WithLog(Pack52, <<Ride(R(260), R(10))>>)
        ELSE [Pack52 EXCEPT !.driving_style = "Casual"]]
CacheFile == SettingsFile(CacheProfiles, <<"Commuter", "Cargo">>, "Commuter")
(* the file holds the ride "Log Ride" stores for 10 miles from 100 % to 50 % *)
CacheFiles == {ListFile(<<RideData(R(10), R(100), R(50), R(520))>>), OtherFile("invalid")}

InitCache == StartsAs(BatteryCalculatorGUI(CacheFile))
NextCache ==
    \/ \E ride_end_value \in {Num(R(50)), Num(R(150))} :
          click_log_ride(Num(R(10)), "percentage", Num(R(100)), "percentage", ride_end_value)
    \/ \E imported_file \in CacheFiles : click_import_ride_log(imported_file)
    \/ \E selected_rows \in SUBSET (1..MaxLogLen) : click_delete_selected_rides(selected_rows)
    \/ \E profile_name \in {"Commuter", "Cargo"} : select_profile(profile_name)
    \/ click_load_profile
    \/ click_clear
    \/ click_save_profile
SpecCache == InitCache /\ [][NextCache]_vars

(* the last ride of a log, as a profile stores it: nothing for an empty log *)
LastRideOf(log) == IF Len(log) = 0 THEN <<>> ELSE <<log[Len(log)]>>

(* C24: after any sequence of log_ride, delete_selected_rides,             *)
(* import_ride_log_from_file, clear_fields, save_current_profile and       *)
(* load_profile_data the last_ride_data stored for a profile is the last   *)
(* record of that profile's ride log, and empty when the log is empty      *)
C24_LastRideCache ==
    ~escaped =>
        \A n \in DOMAIN all_profiles :
            all_profiles[n].last_ride_data = LastRideOf(all_profiles[n].ride_log)

(* the keys of a stored profile that hold the values of input fields *)
InputFieldKeys ==
    {"voltage", "series_cells", "capacity_type", "capacity", "charge_rate",
     "charging_duration_hours", "current_percentage", "current_voltage",
     "charge_input_method", "wheel_diameter", "driving_style",
     "preferred_cutoff_percentage"}

(* the parts of C27 about the ride log, the other profiles and the values  *)
(* the input fields are saved with                                         *)
SaveKeepsLogAndOthers ==
    LET after == save_current_profile(Self).all_profiles
    IN  /\ DOMAIN after = DOMAIN all_profiles
        /\ \A n \in DOMAIN all_profiles \ {current_profile_name} : after[n] = all_profiles[n]
        /\ after[current_profile_name].ride_log = CurrentLog
        /\ after[current_profile_name].voltage = voltage_entry
        /\ after[current_profile_name].capacity = capacity_entry
        /\ after[current_profile_name].wheel_diameter = wheel_diameter_entry
        /\ after[current_profile_name].driving_style = driving_style_combo

(* C27: save_current_profile replaces only the input-field values of the   *)
(* active profile; it leaves that profile's ride log unchanged and every   *)
(* other profile unchanged                                                 *)
C27_SaveFrame ==
    ~escaped =>
        /\ SaveKeepsLogAndOthers
        /\ \A key \in DOMAIN all_profiles[current_profile_name] \ InputFieldKeys :
               save_current_profile(Self).all_profiles[current_profile_name][key]
                   = all_profiles[current_profile_name][key]

-----------------------------------------------------------------------------
(* The profile store: profiles created, deleted, selected and saved, the   *)
(* window closed and the program started again                             *)

(* names of stored profiles, as many as the store may hold *)
ProfileNames ==
    <<"Default Profile", "Commuter", "Cargo", "Trail", "Road", "City", "Beach",
      "Snow", "Guest", "Spare">>
(* a store of profiles with default settings under the names given *)
StoreOf(keys) == [n \in {keys[i] : i \in 1..Len(keys)} |-> DefaultProfileSettings]
(* the settings files the program is started with: one, two, nine or ten   *)
(* profiles with the first or the last as the last active one, or a name   *)
(* that is not stored; no profiles; no file; a file that is not JSON       *)
ProfileFiles ==
    {SettingsFile(StoreOf(SubSeq(ProfileNames, 1, n)), SubSeq(ProfileNames, 1, n), last) :
        n \in {1, 2, MAX_PROFILES - 1, MAX_PROFILES},
        last \in {"Default Profile", "Commuter", "Spare", "Tandem", ""}}
    \cup {SettingsFile(StoreOf(<<"Commuter">>), <<"Commuter">>, "Commuter"),
          SettingsFile(<<>>, <<>>, "Commuter"),
          NoSettingsFile("missing"), NoSettingsFile("invalid")}
(* the texts typed in the dialog of create_new_profile *)
NewProfileNames == {Typed(""), Padded(""), Typed("Commuter"), Padded("Tandem")}

InitProfiles == \E file \in ProfileFiles : StartsAs(BatteryCalculatorGUI(file))
NextProfiles ==
    \/ Running /\ \E new_name \in NewProfileNames, ok \in BOOLEAN :
                      click_new_profile(new_name, ok)
    \/ Running /\ \E reply \in {"Yes", "No"} : click_delete_profile(reply)
    \/ Running /\ click_save_profile
    \/ Running /\ click_load_profile
    \/ Running /\ \E i \in {1, Len(profile_combo.items)} \cap DOMAIN profile_combo.items :
                      select_profile(profile_combo.items[i])
    \/ closeEvent
    \/ start
SpecProfiles == InitProfiles /\ [][NextProfiles]_vars

(* the profile the program is to start on with the settings file given:   *)
(* the last active one when it is stored, else the first stored, else a    *)
(* fresh "Default Profile"                                                 *)
StartupProfile(file) ==
    IF file.json # "object" \/ file.keys = <<>> THEN "Default Profile"
    ELSE IF file.last_active_profile \in DOMAIN file.profiles
    THEN file.last_active_profile
    ELSE file.keys[1]

(* C25: when __init__ has run, current_profile_name is the settings        *)
(* file's last_active_profile if that names a stored profile, otherwise    *)
(* the first stored profile, otherwise a fresh "Default Profile"           *)
C25_StartupSelection ==
    last_op = "init" => current_profile_name = StartupProfile(settings_file)

(* the profile store of an object: the profiles, their names in order and  *)
(* the active one                                                          *)
StoreIn(s) == <<s.all_profiles, s.profile_keys, s.current_profile_name>>
(* the names that create_new_profile is to refuse: blank after stripping,  *)
(* or the name of a stored profile                                         *)
RefusedName(new_name) == new_name.name = "" \/ new_name.name \in DOMAIN all_profiles

(* C26: the store holds between 1 and MAX_PROFILES profiles with pairwise  *)
(* distinct non-empty names and current_profile_name names one of them;    *)
(* creating with a blank or duplicate name or at the limit changes         *)
(* nothing, a sole "Default Profile" cannot be deleted, and deleting the   *)
(* only profile re-creates "Default Profile"                               *)
C26_ProfileStore ==
    /\ Len(profile_keys) >= 1 /\ Len(profile_keys) <= MAX_PROFILES
    /\ DOMAIN all_profiles = {profile_keys[i] : i \in 1..Len(profile_keys)}
    /\ Cardinality(DOMAIN all_profiles) = Len(profile_keys)
    /\ "" \notin DOMAIN all_profiles
    /\ current_profile_name \in DOMAIN all_profiles
    /\ \A new_name \in NewProfileNames, ok \in BOOLEAN :
           RefusedName(new_name) \/ Len(profile_keys) = MAX_PROFILES
               => /\ StoreIn(create_new_profile(Self, new_name, ok)) = StoreIn(Self)
                  /\ create_new_profile(Self, new_name, ok).settings_file = settings_file
    /\ Len(profile_keys) = 1
           => IF current_profile_name = "Default Profile"
              THEN StoreIn(delete_selected_profile(Self, "Yes")) = StoreIn(Self)
              ELSE StoreIn(delete_selected_profile(Self, "Yes"))
                       = <<OnlyDefaultProfile, <<"Default Profile">>, "Default Profile">>

(* "New" was clicked with the store full, and no profile was added *)
C26_RefusedAtLimit ==
    /\ last_op = "create_new_profile"
    /\ Len(profile_keys) = MAX_PROFILES
    /\ "Tandem" \notin DOMAIN all_profiles

-----------------------------------------------------------------------------
(* The efficiency source over two profiles (SpecEfficiency) *)

(* "Commuter" has logged a ride of 26 Wh/mile, "Cargo" has logged none *)
EfficiencyFile ==
    SettingsFile([n \in {"Commuter", "Cargo"} |->
                     IF n = "Commuter" THEN WithLog(Pack52, <<Ride(R(260), R(10))>>)
                     ELSE Pack52],
                 <<"Commuter", "Cargo">>, "Commuter")
(* the files imported: the ride "Log Ride" stores for 10 miles from 100 %  *)
(* to 50 %, and the same ride with a start_percent that is a text          *)
EfficiencyFiles ==
    {ListFile(<<RideData(R(10), R(100), R(50), R(520))>>),
     ListFile(<<[RideData(R(10), R(100), R(50), R(520)) EXCEPT !.start_percent = BadText]>>)}

InitEfficiency == StartsAs(BatteryCalculatorGUI(EfficiencyFile))
NextEfficiency ==
    \/ \E profile_name \in {"Commuter", "Cargo"} : select_profile(profile_name)
    \/ click_load_profile
    \/ click_apply_logged_efficiency
    \/ click_reset_efficiency
    \/ click_calculate
    \/ click_log_ride(Num(R(10)), "percentage", Num(R(100)), "percentage", Num(R(50)))
    \/ \E imported_file \in EfficiencyFiles : click_import_ride_log(imported_file)
    \/ \E selected_rows \in SUBSET (1..MaxLogLen) : click_delete_selected_rides(selected_rows)
    \/ click_clear
SpecEfficiency == InitEfficiency /\ [][NextEfficiency]_vars

(* the average of a ride log: its Wh over its miles, 0 when it has none *)
LogAverage(log) ==
    IF RLt(Zero, TotalsOf(log).dist) THEN RDiv(TotalsOf(log).wh, TotalsOf(log).dist)
    ELSE Zero
(* the energy of the pack the fields describe *)
FieldsEnergyWh ==
    TotalEnergyWh(FloatOrZero(capacity_entry), capacity_type_combo,
                  FloatOrZero(voltage_entry))

(* C28: load_profile_data of a stored profile leaves the source at         *)
(* Predicted and the stored average at the average of that profile's ride  *)
(* log, 0 if it has none; a range a calculation labels Logged is the       *)
(* energy over the average of the current profile's ride log, which is > 0 *)
C28_NoLeakAcrossProfiles ==
    ~escaped =>
        /\ \A n \in DOMAIN all_profiles :
             LET after == load_profile_data(Self, n)
             IN  ~after.escaped =>
                     /\ ~after.use_logged_efficiency
                     /\ after.efficiency_source_label # Text("Logged")
                     /\ after.logged_wh_per_mile_average = LogAverage(all_profiles[n].ride_log)
        /\ \A after \in {calculate_all(Self), apply_logged_efficiency_to_calculator(Self)} :
             after.efficiency_source_label = Text("Logged") =>
                 /\ RLt(Zero, LogAverage(CurrentLog))
                 /\ after.full_charge_range
                        = RDiv(FieldsEnergyWh, LogAverage(CurrentLog))

=============================================================================
